---- MODULE Spec2Model ----
(***************************************************************************)
(* B+tree map over slotted pages (src/btree.hpp, namespace cybozu, the     *)
(* revision that starts at line 917).  A page is the header of             *)
(* `struct header` plus its stub directory; the bytes of a record are      *)
(* carried by the stub that points at them.  Page objects are identified   *)
(* by small integers (their addresses); root_ is the page held inline by   *)
(* the map.  Stub indices are 0-based as in the source.                    *)
(***************************************************************************)
EXTENDS Integers, Sequences, FiniteSets, TLC

\* ---------------------------------------------------------------- bounds
\* Page size in bytes used by the model (the source builds with 1024).
PAGE_SIZE == 70
\* The operations store NumKeys keys, the odd numbers 1, 3, ...; the calls
\* that the properties look at also take the even numbers around them.
\* Values are 0..MaxVal, page objects 0..MaxPages-1.
NumKeys == 4
MaxVal == 1
MaxPages == 20
\* Keys up to MaxDupKey are inserted with every value, the other keys with a
\* value derived from the key (the tests insert (k, k)).
MaxDupKey == 1
\* The calls on a single page also take keys and values of ShortSize bytes;
\* they store the first NumPageKeys of the keys.
ShortSize == 2
NumPageKeys == 3
\* The calls on several pages keep at most MaxLivePages page objects.
MaxLivePages == 3
\* An allocation failure is looked at for each of the first MaxAllocs + 1
\* allocations of a call.
MaxAllocs == 7
\* The counters of an Mgl object are looked at for the values 0..MaxLock.
MaxLock == 2
\* keys of the map with deeper trees
NumDeepKeys == 7
\* steps after which a walk over the items is cut
MaxWalk == NumKeys + 2
\* worker threads that contend on the lock byte
NumThreads == 3
\* each worker runs at most MaxCount guarded sections
MaxCount == 2
\* the workers draw the first NumSpinKeys of the keys from rand_()
NumSpinKeys == 2

\* ------------------------------------------------------ program constants
HeaderSize == 16
StubSize == 6
KeySize == 4
ValueSize == 4
PtrSize == 8
EMPTY == 65535
LOWER == 65534
UPPER == 65533
POISON == 65535
nullptr == 0 - 1
root_ == 0

Keys == {2 * i - 1 : i \in 1..NumKeys}
MaxKey == 2 * NumKeys
ProbeKeys == 0..MaxKey
Vals == 0..MaxVal
ValsOf(k) == {(k \div 2) % (MaxVal + 1)} \cup (IF k <= MaxDupKey THEN Vals ELSE {})
PageIds == 0..(MaxPages - 1)

\* With(e, Op) is Op(e): e is written once and Op reads it as often as it
\* needs (a local variable of the source).
With(e, Op(_)) == Op(e)

\* ------------------------------------------------------------------- Mgl
\* class Mgl: the five counters; Mgl::Mgl() and Mgl::reset() make them zero
MglNew == [numS |-> 0, numX |-> 0, numSix |-> 0, numIs |-> 0, numIx |-> 0]
MglReset(m) == MglNew

noS(m) == m.numS = 0
noX(m) == m.numX = 0
noSix(m) == m.numSix = 0
noIs(m) == m.numIs = 0
noIx(m) == m.numIx = 0

canS(m) == noIx(m) /\ noSix(m) /\ noX(m)
canX(m) == noIs(m) /\ noIx(m) /\ noS(m) /\ noSix(m) /\ noX(m)
\* canSix that does not look at the S counter
canSix_noS(m) == noIx(m) /\ noSix(m) /\ noX(m)

canSix(m) == noIx(m) /\ noS(m) /\ noSix(m) /\ noX(m)
canIs(m) == noX(m)
canIx(m) == noS(m) /\ noSix(m) /\ noX(m)

\* ------------------------------------------------------------------ page
\* PageX::clear() on a freshly allocated page (PageX::PageX -> init -> clear).
InitPage ==
  [live |-> TRUE, recEndOff |-> HeaderSize, stubBgnOff |-> PAGE_SIZE,
   level |-> POISON, totalDataSize |-> 0, parent |-> nullptr, stubs |-> <<>>]

\* A page object after `delete`.
FreedPage == [InitPage EXCEPT !.live = FALSE]

\* A pointer to no page object of the map, and what is left of a page
\* object that `delete` was called on a second time.
Dangling == 0 - 2
FreedTwice == [FreedPage EXCEPT !.parent = Dangling]

\* PageX::clear()
PageClear(p) ==
  [p EXCEPT !.recEndOff = HeaderSize, !.stubBgnOff = PAGE_SIZE,
            !.parent = nullptr, !.level = POISON, !.totalDataSize = 0,
            !.stubs = <<>>]

\* BtreeMap::Compare::operator()
Compare(key0, key1) ==
  IF key0 = key1 THEN 0 ELSE IF key0 < key1 THEN 0 - 1 ELSE 1

isNormalIndex(idx) == idx # EMPTY /\ idx # LOWER /\ idx # UPPER

numStub(p) == (PAGE_SIZE - p.stubBgnOff) \div StubSize
numRecords(p) == numStub(p)
stub(p, i) == p.stubs[i + 1]
keyAt(p, i) == stub(p, i).key
valueAt(p, i) == stub(p, i).value
keySizeAt(p, i) == stub(p, i).keySize
valueSizeAt(p, i) == stub(p, i).valueSize

pageEmpty(p) == p.stubBgnOff = PAGE_SIZE
freeSpace(p) == (p.stubBgnOff - p.recEndOff) % 65536
emptySize(p) == PAGE_SIZE - HeaderSize
canInsert(p, size) == size + StubSize <= freeSpace(p)
shouldGc(p) == p.totalDataSize * 2 < emptySize(p)

isRoot(p) == p.parent = nullptr
isLeaf(p) == p.level = 0

isLower(p, key0) == Compare(key0, keyAt(p, 0)) < 0
isUpper(p, key0) == Compare(keyAt(p, numStub(p) - 1), key0) < 0

\* PageX::calcTotalDataSize()
RECURSIVE calcTotalFrom(_, _)
calcTotalFrom(p, i) ==
  IF i < numStub(p)
  THEN keySizeAt(p, i) + valueSizeAt(p, i) + StubSize + calcTotalFrom(p, i + 1)
  ELSE 0
calcTotalDataSize(p) == calcTotalFrom(p, 0) % 65536

\* PageX::isValid() as built with DEBUG; without DEBUG the third comparison
\* is compiled out.
PageIsValid(p) ==
  /\ p.recEndOff <= p.stubBgnOff
  /\ p.stubBgnOff <= PAGE_SIZE
  /\ p.totalDataSize = calcTotalDataSize(p)

\* the while loop of lowerBoundStub
RECURSIVE lowerBoundLoop(_, _, _, _)
lowerBoundLoop(p, key0, i0, i1) ==
  IF i0 + 1 < i1
  THEN With((i0 + i1) \div 2, LAMBDA i :
       With(Compare(key0, keyAt(p, i)), LAMBDA r :
         IF r = 0 THEN [hit |-> TRUE, i0 |-> i, i1 |-> i]
         ELSE IF r < 0 THEN lowerBoundLoop(p, key0, i0, i)
         ELSE lowerBoundLoop(p, key0, i, i1)))
  ELSE [hit |-> FALSE, i0 |-> i0, i1 |-> i1]

\* lowerBoundStub that returns i0 after the loop whatever key(i0) is
lowerBoundStub_i0(p, key0) ==
  IF pageEmpty(p) THEN EMPTY
  ELSE IF isUpper(p, key0) THEN UPPER
  ELSE IF isLower(p, key0) THEN 0
  ELSE IF lowerBoundLoop(p, key0, 0, numStub(p) - 1).hit
  THEN lowerBoundLoop(p, key0, 0, numStub(p) - 1).i0
  ELSE lowerBoundLoop(p, key0, 0, numStub(p) - 1).i0

\* PageX::lowerBoundStub
lowerBoundStub(p, key0) ==
  IF pageEmpty(p) THEN EMPTY
  ELSE IF isUpper(p, key0) THEN UPPER
  ELSE IF isLower(p, key0) THEN 0
  ELSE With(lowerBoundLoop(p, key0, 0, numStub(p) - 1), LAMBDA b :
         IF b.hit THEN b.i0
         ELSE IF Compare(keyAt(p, b.i0), key0) < 0 THEN b.i1
         ELSE b.i0)

\* the while loop of searchStub
RECURSIVE searchLoop(_, _, _, _)
searchLoop(p, key0, i0, i1) ==
  IF i0 + 1 < i1
  THEN With((i0 + i1) \div 2, LAMBDA i :
       With(Compare(key0, keyAt(p, i)), LAMBDA r :
         IF r = 0 THEN [hit |-> TRUE, i0 |-> i, i1 |-> i]
         ELSE IF r < 0 THEN searchLoop(p, key0, i0, i)
         ELSE searchLoop(p, key0, i, i1)))
  ELSE [hit |-> FALSE, i0 |-> i0, i1 |-> i1]

\* searchStub that returns i1 after the loop whatever key(i1) is
searchStub_i1(p, key0) ==
  IF pageEmpty(p) THEN EMPTY
  ELSE IF isUpper(p, key0) THEN UPPER
  ELSE IF isLower(p, key0) THEN LOWER
  ELSE IF searchLoop(p, key0, 0, numStub(p) - 1).hit
  THEN searchLoop(p, key0, 0, numStub(p) - 1).i0
  ELSE searchLoop(p, key0, 0, numStub(p) - 1).i1

\* PageX::searchStub
searchStub(p, key0) ==
  IF pageEmpty(p) THEN EMPTY
  ELSE IF isUpper(p, key0) THEN UPPER
  ELSE IF isLower(p, key0) THEN LOWER
  ELSE With(searchLoop(p, key0, 0, numStub(p) - 1), LAMBDA b :
         IF b.hit THEN b.i0
         ELSE IF Compare(keyAt(p, b.i1), key0) = 0 THEN b.i1
         ELSE b.i0)

\* eraseStub that leaves totalDataSize as it is
eraseStub_keepTotal(p, i) ==
  [p EXCEPT
     !.stubs = SubSeq(p.stubs, 1, i) \o SubSeq(p.stubs, i + 2, Len(p.stubs)),
     !.stubBgnOff = p.stubBgnOff + StubSize]

\* PageX::eraseStub
eraseStub(p, i) ==
  [p EXCEPT
     !.totalDataSize =
        (p.totalDataSize - (keySizeAt(p, i) + valueSizeAt(p, i) + StubSize)) % 65536,
     !.stubs = SubSeq(p.stubs, 1, i) \o SubSeq(p.stubs, i + 2, Len(p.stubs)),
     !.stubBgnOff = p.stubBgnOff + StubSize]

\* insertPos with the new stub always put first
insertPos_front(p, key0, j) == 0

\* the insertion sort of PageX::insert: the number of old stubs that stay
\* in front of the new one.
RECURSIVE insertPos(_, _, _)
insertPos(p, key0, j) ==
  IF j < numStub(p) /\ ~(Compare(key0, keyAt(p, j)) < 0)
  THEN insertPos(p, key0, j + 1)
  ELSE j

\* insert that looks at the free space before it looks for the key
PageInsert_spaceFirst(p, key0, keySize0, value0, valueSize0) ==
  IF ~canInsert(p, keySize0 + valueSize0)
  THEN [ok |-> FALSE, err |-> "NO_SPACE", page |-> p]
  ELSE IF \E i \in 0..(numStub(p) - 1) : keyAt(p, i) = key0
  THEN [ok |-> FALSE, err |-> "KEY_EXISTS", page |-> p]
  ELSE [ok |-> TRUE, err |-> "NONE",
        page |-> [p EXCEPT
           !.recEndOff = p.recEndOff + keySize0 + valueSize0,
           !.stubBgnOff = p.stubBgnOff - StubSize,
           !.stubs = SubSeq(p.stubs, 1, insertPos(p, key0, 0))
                       \o <<[off |-> p.recEndOff, keySize |-> keySize0,
                             valueSize |-> valueSize0, key |-> key0,
                             value |-> value0]>>
                       \o SubSeq(p.stubs, insertPos(p, key0, 0) + 1, Len(p.stubs)),
           !.totalDataSize =
              (p.totalDataSize + keySize0 + valueSize0 + StubSize) % 65536]]

\* PageX::insert(keyPtr0, keySize0, valuePtr0, valueSize0, err)
PageInsert(p, key0, keySize0, value0, valueSize0) ==
  With(lowerBoundStub(p, key0), LAMBDA i :
    IF isNormalIndex(i) /\ Compare(key0, keyAt(p, i)) = 0
    THEN [ok |-> FALSE, err |-> "KEY_EXISTS", page |-> p]
    ELSE IF ~canInsert(p, keySize0 + valueSize0)
    THEN [ok |-> FALSE, err |-> "NO_SPACE", page |-> p]
    ELSE
      With(insertPos(p, key0, 0), LAMBDA j :
      With([off |-> p.recEndOff, keySize |-> keySize0, valueSize |-> valueSize0,
            key |-> key0, value |-> value0], LAMBDA st :
        [ok |-> TRUE, err |-> "NONE",
         page |-> [p EXCEPT
            !.recEndOff = p.recEndOff + keySize0 + valueSize0,
            !.stubBgnOff = p.stubBgnOff - StubSize,
            !.stubs = SubSeq(p.stubs, 1, j) \o <<st>>
                        \o SubSeq(p.stubs, j + 1, Len(p.stubs)),
            !.totalDataSize =
               (p.totalDataSize + keySize0 + valueSize0 + StubSize) % 65536]])))

\* PageX::erase(keyPtr, keySize)
PageErase(p, key0) ==
  With(lowerBoundStub(p, key0), LAMBDA idx :
    IF ~isNormalIndex(idx) THEN [ok |-> FALSE, page |-> p]
    ELSE [ok |-> TRUE, page |-> eraseStub(p, idx)])

\* PageX::updateStub
updateStub(p, i, value0, valueSize0) ==
  LET oldValueSize == valueSizeAt(p, i) IN
  IF oldValueSize < valueSize0
  THEN [ok |-> FALSE, err |-> "NO_SPACE", page |-> p]
  ELSE [ok |-> TRUE, err |-> "NONE",
        page |-> [p EXCEPT
           !.stubs[i + 1].valueSize = valueSize0,
           !.stubs[i + 1].value = value0,
           !.totalDataSize =
              (p.totalDataSize - (oldValueSize - valueSize0)) % 65536]]

\* update that takes the record at the lower bound of the key for the
\* record of the key
PageUpdate_noEq(p, key0, value0, valueSize0) ==
  IF ~isNormalIndex(lowerBoundStub(p, key0))
  THEN [ok |-> FALSE, err |-> "KEY_NOT_EXISTS", page |-> p]
  ELSE updateStub(p, lowerBoundStub(p, key0), value0, valueSize0)

\* PageX::update(keyPtr0, keySize0, valuePtr0, valueSize0, err)
PageUpdate(p, key0, value0, valueSize0) ==
  With(lowerBoundStub(p, key0), LAMBDA i :
    IF ~isNormalIndex(i) \/ Compare(key0, keyAt(p, i)) # 0
    THEN [ok |-> FALSE, err |-> "KEY_NOT_EXISTS", page |-> p]
    ELSE updateStub(p, i, value0, valueSize0))

\* The n bytes that memcpy takes from an object of n bytes holding the
\* number x (little endian), and the number that a read of the bytes bs
\* through a pointer to an unsigned type of Len(bs) bytes gives.
bytesOf(x, n) == [j \in 1..n |-> (x \div (256 ^ (j - 1))) % 256]
RECURSIVE numOf(_)
numOf(bs) == IF bs = <<>> THEN 0 ELSE bs[1] + 256 * numOf(Tail(bs))

\* the bytes of record i from stub(i).off on: the key, then the value
recordBytes(p, i) ==
  bytesOf(keyAt(p, i), keySizeAt(p, i)) \o bytesOf(valueAt(p, i), valueSizeAt(p, i))

\* What value<T>(i) reads after updateKeyStub wrote a key of keySize0 bytes:
\* memmove(valuePtr(i), oldValuePtr, valueSize(i)) runs while stub(i).keySize
\* is still the old size, so valuePtr(i) is oldValuePtr and no byte moves;
\* the value is then read keySize0 bytes after stub(i).off.
valueAfterKey(p, i, keySize0) ==
  IF keySize0 = keySizeAt(p, i) THEN valueAt(p, i)
  ELSE numOf(SubSeq(recordBytes(p, i), keySize0 + 1, keySize0 + valueSizeAt(p, i)))


\* PageX::updateKeyStub
updateKeyStub(p, i, key0, keySize0) ==
  LET oldKeySize == keySizeAt(p, i) IN
  IF oldKeySize < keySize0
  THEN [ok |-> FALSE, err |-> "NO_SPACE", page |-> p]
  ELSE IF 0 < i /\ Compare(keyAt(p, i - 1), key0) >= 0
  THEN [ok |-> FALSE, err |-> "INVALID_KEY", page |-> p]
  ELSE IF i < numStub(p) - 1 /\ Compare(key0, keyAt(p, i + 1)) >= 0
  THEN [ok |-> FALSE, err |-> "INVALID_KEY", page |-> p]
  ELSE [ok |-> TRUE, err |-> "NONE",
        page |-> [p EXCEPT
           !.stubs[i + 1].key = numOf(bytesOf(key0, keySize0)),
           !.stubs[i + 1].value = valueAfterKey(p, i, keySize0),
           !.stubs[i + 1].keySize = keySize0,
           !.totalDataSize =
              (p.totalDataSize - (oldKeySize - keySize0)) % 65536]]

\* Page::Iterator::erase that steps to the slot after the erased one
pageItErase_advance(p, idx) == [page |-> eraseStub(p, idx), idx |-> idx + 1]

\* PageX::Iterator::erase and PageX::erase(Iterator &): the page and the
\* index of the iterator afterwards
pageItErase(p, idx) == [page |-> eraseStub(p, idx), idx |-> idx]

\* the loop of testPage0 with the keys of S in the place of the even keys:
\* `it = page.begin(); while (it != page.end()) { if (S has it.key())
\* it = page.erase(it); else ++it; }`; seen are the keys read by it.key()
RECURSIVE eraseIf(_, _, _, _)
eraseIf(p, idx, S, seen) ==
  IF idx # numStub(p)
  THEN IF keyAt(p, idx) \in S
       THEN With(pageItErase(p, idx), LAMBDA r :
              eraseIf(r.page, r.idx, S, Append(seen, keyAt(p, idx))))
       ELSE eraseIf(p, idx + 1, S, Append(seen, keyAt(p, idx)))
  ELSE [page |-> p, seen |-> seen]

\* PageX::lowerBound(keyPtr0, keySize0): the index of the returned Iterator
PageLowerBound(p, key0) ==
  With(lowerBoundStub(p, key0), LAMBDA i :
    IF ~isNormalIndex(i) THEN numStub(p) ELSE i)

\* PageX::search(keyPtr0, keySize0, allowLower, allowUpper): the index of
\* the returned Iterator
PageSearch(p, key0, allowLower, allowUpper) ==
  With(searchStub(p, key0), LAMBDA i :
    IF i = UPPER /\ ~allowUpper THEN numStub(p) - 1
    ELSE IF i = LOWER /\ ~allowLower THEN 0
    ELSE IF ~isNormalIndex(i) THEN numStub(p)
    ELSE i)

minKey(p) == keyAt(p, 0)
maxKey(p) == keyAt(p, numStub(p) - 1)
leftMostChild(p) == valueAt(p, 0)
rightMostChild(p) == valueAt(p, numStub(p) - 1)

\* child that takes the rightmost child for a key below the first key
child_lowerRight(p, key0) ==
  IF searchStub(p, key0) = LOWER \/ searchStub(p, key0) = UPPER
  THEN rightMostChild(p)
  ELSE valueAt(p, searchStub(p, key0))

\* PageX::child(key)
child(p, key0) ==
  With(searchStub(p, key0), LAMBDA i :
    IF i = LOWER THEN leftMostChild(p)
    ELSE IF i = UPPER THEN rightMostChild(p)
    ELSE valueAt(p, i))

\* insertDown that leaves out the record of slot lo
RECURSIVE insertDown_stopEarly(_, _, _, _)
insertDown_stopEarly(dst, src, i, lo) ==
  IF lo + 1 < i
  THEN LET s == stub(src, i - 1)
       IN insertDown_stopEarly(
            PageInsert(dst, s.key, s.keySize, s.value, s.valueSize).page,
            src, i - 1, lo)
  ELSE dst

\* records src[j] for j = i-1 down to lo inserted into dst (the reverse-order
\* loops of split and merge)
RECURSIVE insertDown(_, _, _, _)
insertDown(dst, src, i, lo) ==
  IF lo < i
  THEN LET s == stub(src, i - 1)
       IN insertDown(PageInsert(dst, s.key, s.keySize, s.value, s.valueSize).page,
                     src, i - 1, lo)
  ELSE dst

\* records src[i..n-1] inserted into dst in stub order (the loop of gc)
RECURSIVE insertUp(_, _, _)
insertUp(dst, src, i) ==
  IF i < numStub(src)
  THEN LET s == stub(src, i)
       IN insertUp(PageInsert(dst, s.key, s.keySize, s.value, s.valueSize).page,
                   src, i + 1)
  ELSE dst

\* gc that leaves the parent and the level of the fresh page as they are
gc_fresh(p) ==
  [insertUp(InitPage, p, 0) EXCEPT !.live = p.live]

\* PageX::gc()
gc(p) ==
  [insertUp(InitPage, p, 0) EXCEPT
     !.parent = p.parent, !.level = p.level, !.live = p.live]

\* merge that clears rhs without taking its records
merge_dropRhs(p, rhs) ==
  IF freeSpace(p) < rhs.totalDataSize
  THEN [ok |-> FALSE, page |-> p, rhs |-> rhs]
  ELSE [ok |-> TRUE, page |-> p, rhs |-> PageClear(rhs)]

\* merge with the comparison of the early revision
merge_inverted(p, rhs) ==
  IF rhs.totalDataSize < freeSpace(p)
  THEN [ok |-> FALSE, page |-> p, rhs |-> rhs]
  ELSE [ok |-> TRUE, page |-> insertDown(p, rhs, numStub(rhs), 0),
        rhs |-> PageClear(rhs)]

\* PageX::merge(rhs): *this is the right page, rhs the left one
merge(p, rhs) ==
  IF freeSpace(p) < rhs.totalDataSize
  THEN [ok |-> FALSE, page |-> p, rhs |-> rhs]
  ELSE [ok |-> TRUE, page |-> insertDown(p, rhs, numStub(rhs), 0),
        rhs |-> PageClear(rhs)]


\* ------------------------------------------------------------------ heap
\* `new Page()`: the lowest page object that is not live
alloc(h) ==
  CHOOSE q \in PageIds \ {root_} :
     /\ ~h[q].live
     /\ \A r \in PageIds \ {root_} : ~h[r].live => q <= r

\* `delete page`
free(h, pg) ==
  [h EXCEPT ![pg] = IF h[pg].live THEN FreedPage ELSE FreedTwice]

childrenOf(p) == {valueAt(p, i) : i \in 0..(numStub(p) - 1)}

\* the loops `child->header().parent = ...` over every record of page pg
setParentOfChildren(h, pg, np) ==
  [q \in PageIds |->
     IF q \in childrenOf(h[pg]) THEN [h[q] EXCEPT !.parent = np] ELSE h[q]]

\* split that gives the left page the larger half
split_leftMore(h, pg, isHalfAndHalf) ==
  With(alloc(h), LAMBDA p0 :
  With(alloc([h EXCEPT ![p0] = InitPage]), LAMBDA p1 :
    LET src == h[pg]
        n == numStub(src)
        e == [InitPage EXCEPT !.level = src.level]
    IN [h |-> [h EXCEPT ![p0] = insertDown(e, src, (n + 1) \div 2, 0),
                        ![p1] = insertDown(e, src, n, (n + 1) \div 2),
                        ![pg] = PageClear(src)],
        p0 |-> p0, p1 |-> p1]))

\* PageX::split(isHalfAndHalf): two new pages, the source is cleared
split(h, pg, isHalfAndHalf) ==
  With(alloc(h), LAMBDA p0 :
  With(alloc([h EXCEPT ![p0] = InitPage]), LAMBDA p1 :
    LET src == h[pg]
        n == numStub(src)
        e == [InitPage EXCEPT !.level = src.level]
        q0 == IF isHalfAndHalf THEN insertDown(e, src, n \div 2, 0)
              ELSE [src EXCEPT !.live = TRUE]
        q1 == IF isHalfAndHalf THEN insertDown(e, src, n, n \div 2) ELSE e
    IN [h |-> [h EXCEPT ![p0] = q0, ![p1] = q1, ![pg] = PageClear(src)],
        p0 |-> p0, p1 |-> p1]))

\* ------------------------------------------------------------------ tree
\* BtreeMap::searchLeaf
RECURSIVE searchLeafFrom(_, _, _)
searchLeafFrom(h, pg, key0) ==
  IF isLeaf(h[pg]) THEN pg ELSE searchLeafFrom(h, child(h[pg], key0), key0)
searchLeaf(h, key0) == searchLeafFrom(h, root_, key0)

\* BtreeMap::leftMostPage / rightMostPage
RECURSIVE leftMostFrom(_, _)
leftMostFrom(h, pg) ==
  IF isLeaf(h[pg]) THEN pg ELSE leftMostFrom(h, leftMostChild(h[pg]))
leftMostPage(h) == leftMostFrom(h, root_)
RECURSIVE rightMostFrom(_, _)
rightMostFrom(h, pg) ==
  IF isLeaf(h[pg]) THEN pg ELSE rightMostFrom(h, rightMostChild(h[pg]))
rightMostPage(h) == rightMostFrom(h, root_)

\* BtreeMap::parentRecord: the index of the returned iterator
parentRecord(h, pg) ==
  With(PageSearch(h[h[pg].parent], minKey(h[pg]), FALSE, FALSE), LAMBDA i :
    IF valueAt(h[h[pg].parent], i) # pg THEN i + 1 ELSE i)

\* BtreeMap::nextPageC, "Traverse ancestors"
RECURSIVE nextAncestor(_, _)
nextAncestor(h, pg) ==
  With(parentRecord(h, pg) + 1, LAMBDA i :
    LET par == h[pg].parent
    IN IF i # numStub(h[par]) THEN valueAt(h[par], i)
       ELSE IF h[par].parent = nullptr THEN nullptr
       ELSE nextAncestor(h, par))

\* nextPageC that stops at the child of the ancestor
nextPageC_noDescend(h, pg) ==
  IF pg = nullptr THEN leftMostPage(h)
  ELSE IF isRoot(h[pg]) THEN nullptr
  ELSE nextAncestor(h, pg)

\* BtreeMap::nextPageC
nextPageC(h, pg) ==
  IF pg = nullptr THEN leftMostPage(h)
  ELSE IF isRoot(h[pg]) THEN nullptr
  ELSE With(nextAncestor(h, pg), LAMBDA q :
         IF q = nullptr THEN nullptr ELSE leftMostFrom(h, q))

\* BtreeMap::prevPageC, "Traverse ancestors"
RECURSIVE prevAncestor(_, _)
prevAncestor(h, pg) ==
  With(parentRecord(h, pg), LAMBDA i :
    LET par == h[pg].parent
    IN IF i # 0 THEN valueAt(h[par], i - 1)
       ELSE IF h[par].parent = nullptr THEN nullptr
       ELSE prevAncestor(h, par))

\* BtreeMap::prevPageC
prevPageC(h, pg) ==
  IF pg = nullptr THEN rightMostPage(h)
  ELSE IF isRoot(h[pg]) THEN nullptr
  ELSE With(prevAncestor(h, pg), LAMBDA q :
         IF q = nullptr THEN nullptr ELSE rightMostFrom(h, q))

\* operator++ that stays at the end
pageIncr_stay(h, pg) ==
  IF pg # nullptr THEN nextPageC(h, pg) ELSE nullptr

\* PageIterator::operator++ / operator--: the page after the step, nullptr
\* being the end
pageIncr(h, pg) ==
  IF pg # nullptr THEN nextPageC(h, pg) ELSE leftMostPage(h)
pageDecr(h, pg) ==
  IF pg # nullptr THEN prevPageC(h, pg) ELSE rightMostPage(h)

\* installSplit that redirects the record of the split page to p0 and
\* leaves its key as it is
installSplit_keepKey(h, parent0, parent1, pg, p0, p1, k0, k1) ==
  With(keyAt(h[parent0], PageSearch(h[parent0], k0, FALSE, FALSE)), LAMBDA k2 :
  With([h EXCEPT ![parent0] = PageUpdate(h[parent0], k2, p0, PtrSize).page],
       LAMBDA h1 :
  With(IF ~canInsert(h1[parent1], KeySize + PtrSize)
       THEN [h1 EXCEPT ![parent1] = gc(h1[parent1])] ELSE h1, LAMBDA h2 :
    free([h2 EXCEPT
            ![parent1] = PageInsert(h2[parent1], k1, KeySize, p1, PtrSize).page,
            ![p0].parent = parent0, ![p1].parent = parent1], pg))))

\* splitLeaf / splitNonLeaf, non-root case after the parents are known:
\* the record of the split page is redirected to p0, (k1, p1) is added,
\* the split page is deleted (update(k0, ..) in splitLeaf and update(k2, ..)
\* in splitNonLeaf are reached with k2 = k0).
installSplit(h, parent0, parent1, pg, p0, p1, k0, k1) ==
  With(keyAt(h[parent0], PageSearch(h[parent0], k0, FALSE, FALSE)), LAMBDA k2 :
  With([h EXCEPT ![parent0] =
          IF k2 = k0
          THEN PageUpdate(h[parent0], k0, p0, PtrSize).page
          ELSE PageInsert(PageErase(h[parent0], k2).page,
                          k0, KeySize, p0, PtrSize).page], LAMBDA h1 :
  With(IF ~canInsert(h1[parent1], KeySize + PtrSize)
       THEN [h1 EXCEPT ![parent1] = gc(h1[parent1])] ELSE h1, LAMBDA h2 :
    free([h2 EXCEPT
            ![parent1] = PageInsert(h2[parent1], k1, KeySize, p1, PtrSize).page,
            ![p0].parent = parent0, ![p1].parent = parent1], pg))))

\* splitLeaf / splitNonLeaf, root case: the emptied root becomes the parent
\* of p0 and p1 at level newLevel
installRoot(h, pg, p0, p1, k0, k1, newLevel) ==
  LET a == PageInsert(h[pg], k0, KeySize, p0, PtrSize).page
      b == PageInsert(a, k1, KeySize, p1, PtrSize).page
  IN [h EXCEPT ![pg] = [b EXCEPT !.level = newLevel],
               ![p0].parent = pg, ![p1].parent = pg]

\* BtreeMap::splitNonLeaf: [h, r0, r1]
RECURSIVE splitNonLeaf(_, _, _, _)
splitNonLeaf(h, pg, key0, key1) ==
  With(split(h, pg, TRUE), LAMBDA sp :
  With([sp.h EXCEPT ![sp.p0].level = h[pg].level,
                    ![sp.p1].level = h[pg].level], LAMBDA h1 :
    LET level == h[pg].level
        parent == h[pg].parent
        p0 == sp.p0
        p1 == sp.p1
        k0 == minKey(h1[p0])
        k1 == minKey(h1[p1])
        recSize == KeySize + PtrSize
        h4 == IF parent = nullptr
              THEN [installRoot(h1, pg, p0, p1, k0, k1, level + 1) EXCEPT
                      ![pg].parent = nullptr]
              ELSE
                With(IF ~canInsert(h1[parent], recSize)
                     THEN [h1 EXCEPT ![parent] = gc(h1[parent])] ELSE h1, LAMBDA h2 :
                With(IF ~canInsert(h2[parent], recSize)
                     THEN splitNonLeaf(h2, parent, k0, k1)
                     ELSE [h |-> h2, r0 |-> parent, r1 |-> parent], LAMBDA sn :
                  installSplit(sn.h, sn.r0, sn.r1, pg, p0, p1, k0, k1)))
    IN [h |-> setParentOfChildren(setParentOfChildren(h4, p0, p0), p1, p1),
        r0 |-> IF key0 < k1 THEN p0 ELSE p1,
        r1 |-> IF key1 < k1 THEN p0 ELSE p1]))

\* BtreeMap::splitLeaf: [h, p] with p the leaf for key0
splitLeaf(h, pg, key0) ==
  With(split(h, pg, TRUE), LAMBDA sp :
  With([sp.h EXCEPT ![sp.p0].level = 0, ![sp.p1].level = 0], LAMBDA h1 :
    LET parent == h[pg].parent
        p0 == sp.p0
        p1 == sp.p1
        k0 == minKey(h1[p0])
        k1 == minKey(h1[p1])
        recSize == KeySize + PtrSize
        h4 == IF parent = nullptr
              THEN installRoot(h1, pg, p0, p1, k0, k1, 1)
              ELSE
                With(IF ~canInsert(h1[parent], recSize)
                     THEN [h1 EXCEPT ![parent] = gc(h1[parent])] ELSE h1, LAMBDA h2 :
                With(IF ~canInsert(h2[parent], recSize)
                     THEN splitNonLeaf(h2, parent, k0, k1)
                     ELSE [h |-> h2, r0 |-> parent, r1 |-> parent], LAMBDA sn :
                  installSplit(sn.h, sn.r0, sn.r1, pg, p0, p1, k0, k1)))
    IN [h |-> h4, p |-> IF key0 < k1 THEN p0 ELSE p1]))

\* insert without the call of splitLeaf
insert_noSplit(h, key0, value0) ==
  LET size == KeySize + ValueSize
      pg == searchLeaf(h, key0)
      doGc == ~canInsert(h[pg], size) /\ shouldGc(h[pg])
      h1 == IF doGc THEN [h EXCEPT ![pg] = gc(h[pg])] ELSE h
      r == PageInsert(h1[pg], key0, KeySize, value0, ValueSize)
  IN [h |-> [h1 EXCEPT ![pg] = r.page], ret |-> r.ok, err |-> r.err,
      canIns |-> canInsert(h1[pg], size), leaf |-> pg,
      didGc |-> doGc, didSplit |-> FALSE]

\* insert that writes the new value over the value of a key it finds
insert_overwrite(h, key0, value0) ==
  LET size == KeySize + ValueSize
      pg == searchLeaf(h, key0)
      doGc == ~canInsert(h[pg], size) /\ shouldGc(h[pg])
      h1 == IF doGc THEN [h EXCEPT ![pg] = gc(h[pg])] ELSE h
      doSplit == ~canInsert(h1[pg], size)
      s == IF doSplit THEN splitLeaf(h1, pg, key0) ELSE [h |-> h1, p |-> pg]
      r == PageInsert(s.h[s.p], key0, KeySize, value0, ValueSize)
      w == IF r.err = "KEY_EXISTS"
           THEN PageUpdate(s.h[s.p], key0, value0, ValueSize).page ELSE r.page
  IN [h |-> [s.h EXCEPT ![s.p] = w], ret |-> r.ok, err |-> r.err,
      canIns |-> canInsert(s.h[s.p], size), leaf |-> pg,
      didGc |-> doGc, didSplit |-> doSplit]

\* insert that compacts every leaf without room, whatever shouldGc() says
insert_gcAlways(h, key0, value0) ==
  LET size == KeySize + ValueSize
      pg == searchLeaf(h, key0)
      doGc == ~canInsert(h[pg], size)
      h1 == IF doGc THEN [h EXCEPT ![pg] = gc(h[pg])] ELSE h
      doSplit == ~canInsert(h1[pg], size)
      s == IF doSplit THEN splitLeaf(h1, pg, key0) ELSE [h |-> h1, p |-> pg]
      r == PageInsert(s.h[s.p], key0, KeySize, value0, ValueSize)
  IN [h |-> [s.h EXCEPT ![s.p] = r.page], ret |-> r.ok, err |-> r.err,
      canIns |-> canInsert(s.h[s.p], size), leaf |-> pg,
      didGc |-> doGc, didSplit |-> doSplit]

\* BtreeMap::insert: the heap after the call, the returned bool, the error
\* tag, and whether `assert(p->canInsert(size))` held
insert(h, key0, value0) ==
  With(searchLeaf(h, key0), LAMBDA pg :
  With(~canInsert(h[pg], KeySize + ValueSize) /\ shouldGc(h[pg]), LAMBDA doGc :
  With(IF doGc THEN [h EXCEPT ![pg] = gc(h[pg])] ELSE h, LAMBDA h1 :
  With(~canInsert(h1[pg], KeySize + ValueSize), LAMBDA doSplit :
  With(IF doSplit THEN splitLeaf(h1, pg, key0) ELSE [h |-> h1, p |-> pg], LAMBDA s :
  With(PageInsert(s.h[s.p], key0, KeySize, value0, ValueSize), LAMBDA r :
    [h |-> [s.h EXCEPT ![s.p] = r.page], ret |-> r.ok, err |-> r.err,
     canIns |-> canInsert(s.h[s.p], KeySize + ValueSize), leaf |-> pg,
     didGc |-> doGc, didSplit |-> doSplit]))))))


\* ------------------------------------------------- allocation failures
\* The calls below are the calls above with allocPageStatic() throwing
\* std::bad_alloc at one allocation: b is the number of allocations that
\* still succeed.  Each gives the heap that the call leaves behind, the
\* allocations left, and whether the exception left the call (no caller in
\* BtreeMap catches it).

\* PageX::gc(): `Page p;` allocates the buffer that the records move to
gcThrow(h, pg, b) ==
  IF b = 0 THEN [h |-> h, b |-> 0, thrown |-> TRUE]
  ELSE [h |-> [h EXCEPT ![pg] = gc(h[pg])], b |-> b - 1, thrown |-> FALSE]

\* PageX::split(): both `new Page()` stand in front of the try block, so
\* the handler that deletes p0 and p1 is not entered when the second one
\* throws
splitThrow(h, pg, b) ==
  IF b = 0
  THEN [h |-> h, p0 |-> nullptr, p1 |-> nullptr, b |-> 0, thrown |-> TRUE]
  ELSE IF b = 1
  THEN [h |-> [h EXCEPT ![alloc(h)] = InitPage],
        p0 |-> alloc(h), p1 |-> nullptr, b |-> 0, thrown |-> TRUE]
  ELSE With(split(h, pg, TRUE), LAMBDA sp :
         [h |-> sp.h, p0 |-> sp.p0, p1 |-> sp.p1, b |-> b - 2, thrown |-> FALSE])

\* the non-root case of splitLeaf / splitNonLeaf from `parent0->search(k0)`
\* on, with the gc() of parent1
installSplitThrow(h, parent0, parent1, pg, p0, p1, k0, k1, b) ==
  With(keyAt(h[parent0], PageSearch(h[parent0], k0, FALSE, FALSE)), LAMBDA k2 :
  With([h EXCEPT ![parent0] =
          IF k2 = k0
          THEN PageUpdate(h[parent0], k0, p0, PtrSize).page
          ELSE PageInsert(PageErase(h[parent0], k2).page,
                          k0, KeySize, p0, PtrSize).page], LAMBDA h1 :
  With(IF ~canInsert(h1[parent1], KeySize + PtrSize)
       THEN gcThrow(h1, parent1, b)
       ELSE [h |-> h1, b |-> b, thrown |-> FALSE], LAMBDA g :
    IF g.thrown THEN g
    ELSE [h |-> free([g.h EXCEPT
                        ![parent1] = PageInsert(g.h[parent1], k1, KeySize, p1, PtrSize).page,
                        ![p0].parent = parent0, ![p1].parent = parent1], pg),
          b |-> g.b, thrown |-> FALSE])))

\* BtreeMap::splitNonLeaf
RECURSIVE splitNonLeafThrow(_, _, _, _, _)
splitNonLeafThrow(h, pg, key0, key1, b) ==
  With(splitThrow(h, pg, b), LAMBDA sp :
    IF sp.thrown
    THEN [h |-> sp.h, r0 |-> nullptr, r1 |-> nullptr, b |-> 0, thrown |-> TRUE]
    ELSE
    With([sp.h EXCEPT ![sp.p0].level = h[pg].level,
                      ![sp.p1].level = h[pg].level], LAMBDA h1 :
      LET level == h[pg].level
          parent == h[pg].parent
          p0 == sp.p0
          p1 == sp.p1
          k0 == minKey(h1[p0])
          k1 == minKey(h1[p1])
          recSize == KeySize + PtrSize
          done(hh, bb) ==
            [h |-> setParentOfChildren(setParentOfChildren(hh, p0, p0), p1, p1),
             r0 |-> IF key0 < k1 THEN p0 ELSE p1,
             r1 |-> IF key1 < k1 THEN p0 ELSE p1,
             b |-> bb, thrown |-> FALSE]
          fail(hh) ==
            [h |-> hh, r0 |-> nullptr, r1 |-> nullptr, b |-> 0, thrown |-> TRUE]
      IN IF parent = nullptr
         THEN done([installRoot(h1, pg, p0, p1, k0, k1, level + 1) EXCEPT
                      ![pg].parent = nullptr], sp.b)
         ELSE
           With(IF ~canInsert(h1[parent], recSize)
                THEN gcThrow(h1, parent, sp.b)
                ELSE [h |-> h1, b |-> sp.b, thrown |-> FALSE], LAMBDA g :
             IF g.thrown THEN fail(g.h)
             ELSE
             With(IF ~canInsert(g.h[parent], recSize)
                  THEN splitNonLeafThrow(g.h, parent, k0, k1, g.b)
                  ELSE [h |-> g.h, r0 |-> parent, r1 |-> parent,
                        b |-> g.b, thrown |-> FALSE], LAMBDA sn :
               IF sn.thrown THEN fail(sn.h)
               ELSE
               With(installSplitThrow(sn.h, sn.r0, sn.r1, pg, p0, p1, k0, k1, sn.b),
                    LAMBDA ins :
                 IF ins.thrown THEN fail(ins.h) ELSE done(ins.h, ins.b))))))

\* BtreeMap::splitLeaf
splitLeafThrow(h, pg, key0, b) ==
  With(splitThrow(h, pg, b), LAMBDA sp :
    IF sp.thrown THEN [h |-> sp.h, p |-> nullptr, b |-> 0, thrown |-> TRUE]
    ELSE
    With([sp.h EXCEPT ![sp.p0].level = 0, ![sp.p1].level = 0], LAMBDA h1 :
      LET parent == h[pg].parent
          p0 == sp.p0
          p1 == sp.p1
          k0 == minKey(h1[p0])
          k1 == minKey(h1[p1])
          recSize == KeySize + PtrSize
          done(hh, bb) ==
            [h |-> hh, p |-> IF key0 < k1 THEN p0 ELSE p1, b |-> bb, thrown |-> FALSE]
          fail(hh) == [h |-> hh, p |-> nullptr, b |-> 0, thrown |-> TRUE]
      IN IF parent = nullptr
         THEN done(installRoot(h1, pg, p0, p1, k0, k1, 1), sp.b)
         ELSE
           With(IF ~canInsert(h1[parent], recSize)
                THEN gcThrow(h1, parent, sp.b)
                ELSE [h |-> h1, b |-> sp.b, thrown |-> FALSE], LAMBDA g :
             IF g.thrown THEN fail(g.h)
             ELSE
             With(IF ~canInsert(g.h[parent], recSize)
                  THEN splitNonLeafThrow(g.h, parent, k0, k1, g.b)
                  ELSE [h |-> g.h, r0 |-> parent, r1 |-> parent,
                        b |-> g.b, thrown |-> FALSE], LAMBDA sn :
               IF sn.thrown THEN fail(sn.h)
               ELSE
               With(installSplitThrow(sn.h, sn.r0, sn.r1, pg, p0, p1, k0, k1, sn.b),
                    LAMBDA ins :
                 IF ins.thrown THEN fail(ins.h) ELSE done(ins.h, ins.b))))))

\* BtreeMap::insert
insertThrow(h, key0, value0, b) ==
  With(searchLeaf(h, key0), LAMBDA pg :
  With(IF ~canInsert(h[pg], KeySize + ValueSize) /\ shouldGc(h[pg])
       THEN gcThrow(h, pg, b)
       ELSE [h |-> h, b |-> b, thrown |-> FALSE], LAMBDA g :
    IF g.thrown THEN [h |-> g.h, thrown |-> TRUE]
    ELSE
    With(IF ~canInsert(g.h[pg], KeySize + ValueSize)
         THEN splitLeafThrow(g.h, pg, key0, g.b)
         ELSE [h |-> g.h, p |-> pg, b |-> g.b, thrown |-> FALSE], LAMBDA s :
      IF s.thrown THEN [h |-> s.h, thrown |-> TRUE]
      ELSE [h |-> [s.h EXCEPT
                     ![s.p] = PageInsert(s.h[s.p], key0, KeySize, value0, ValueSize).page],
            thrown |-> FALSE])))

\* updateMinKey that leaves the keys of the ancestors as they are
updateMinKey_skip(h, pg) == h

\* updateMinKey that rewrites the entry of the page and stops there
updateMinKey_noCascade(h, pg) ==
  IF isRoot(h[pg]) THEN h
  ELSE With(parentRecord(h, pg), LAMBDA i :
         [h EXCEPT ![h[pg].parent] =
            updateKeyStub(h[h[pg].parent], i, minKey(h[pg]), KeySize).page])

\* BtreeMap::updateMinKey
RECURSIVE updateMinKey(_, _)
updateMinKey(h, pg) ==
  IF isRoot(h[pg]) THEN h
  ELSE With(parentRecord(h, pg), LAMBDA i :
       With([h EXCEPT ![h[pg].parent] =
               updateKeyStub(h[h[pg].parent], i, minKey(h[pg]), KeySize).page],
            LAMBDA h1 :
         IF i = 0 THEN updateMinKey(h1, h[pg].parent) ELSE h1))

\* deleteEmptyPage that leaves a parent that has become empty in place
deleteEmptyPage_noRecurse(h, pg, key0) ==
  IF isRoot(h[pg]) THEN h
  ELSE With(PageSearch(h[h[pg].parent], key0, FALSE, FALSE), LAMBDA i :
       With(free([h EXCEPT ![h[pg].parent] = eraseStub(h[h[pg].parent], i)], pg),
            LAMBDA h2 :
         IF ~pageEmpty(h2[h[pg].parent]) /\ i = 0
         THEN updateMinKey(h2, h[pg].parent) ELSE h2))

\* BtreeMap::deleteEmptyPage
RECURSIVE deleteEmptyPage(_, _, _)
deleteEmptyPage(h, pg, key0) ==
  IF isRoot(h[pg]) THEN h
  ELSE With(PageSearch(h[h[pg].parent], key0, FALSE, FALSE), LAMBDA i :
       With(free([h EXCEPT ![h[pg].parent] = eraseStub(h[h[pg].parent], i)], pg),
            LAMBDA h2 :
         LET parent == h[pg].parent
             isBegin == i = 0
         IN IF pageEmpty(h2[parent]) THEN deleteEmptyPage(h2, parent, key0)
            ELSE IF isBegin THEN updateMinKey(h2, parent)
            ELSE h2))

\* BtreeMap::tryMerge up to its recursive call: the heap, whether the left
\* page was merged into pg, the number of records that pg received and the
\* slot of the entry of pg afterwards
tryMergeStep(h, pg) ==
  IF isRoot(h[pg]) THEN [h |-> h, merged |-> FALSE, n |-> 0, i0 |-> 0]
  ELSE IF emptySize(h[pg]) < h[pg].totalDataSize * 3
  THEN [h |-> h, merged |-> FALSE, n |-> 0, i0 |-> 0]
  ELSE
    With(parentRecord(h, pg), LAMBDA i0 :
    IF i0 = 0 THEN [h |-> h, merged |-> FALSE, n |-> 0, i0 |-> 0]
    ELSE
      With(valueAt(h[h[pg].parent], i0 - 1), LAMBDA leftPage :
      IF emptySize(h[pg]) < h[leftPage].totalDataSize + h[pg].totalDataSize
      THEN [h |-> h, merged |-> FALSE, n |-> 0, i0 |-> 0]
      ELSE
        With(IF freeSpace(h[pg]) < h[leftPage].totalDataSize
             THEN [h EXCEPT ![pg] = gc(h[pg])] ELSE h, LAMBDA h1 :
        With(IF ~isLeaf(h1[leftPage])
             THEN setParentOfChildren(h1, leftPage, pg) ELSE h1, LAMBDA h2 :
        With(merge(h2[pg], h2[leftPage]), LAMBDA m :
        With(free([h2 EXCEPT ![pg] = m.page, ![leftPage] = m.rhs], leftPage),
             LAMBDA h4 :
        With([h4 EXCEPT ![h[pg].parent] = eraseStub(h4[h[pg].parent], i0 - 1)],
             LAMBDA h5 :
          LET parent == h[pg].parent
              key0 == keyAt(h4[parent], i0 - 1)
          IN [h |-> [h5 EXCEPT ![parent] =
                       updateKeyStub(h5[parent], i0 - 1, key0, KeySize).page],
              merged |-> TRUE, n |-> numRecords(h2[leftPage]),
              i0 |-> i0 - 1])))))))

\* tryMerge that returns the iterator it was given
RECURSIVE tryMerge_sameIdx(_, _, _)
tryMerge_sameIdx(h, pg, idx) ==
  With(tryMergeStep(h, pg), LAMBDA s :
    IF ~s.merged THEN [h |-> h, idx |-> idx]
    ELSE [h |-> tryMerge_sameIdx(s.h, h[pg].parent, s.i0).h, idx |-> idx])

\* BtreeMap::tryMerge: the heap and the index of the returned iterator
RECURSIVE tryMerge(_, _, _)
tryMerge(h, pg, idx) ==
  With(tryMergeStep(h, pg), LAMBDA s :
    IF ~s.merged THEN [h |-> h, idx |-> idx]
    ELSE [h |-> tryMerge(s.h, h[pg].parent, s.i0).h, idx |-> idx + s.n])

\* liftUp that leaves the root above its only child
liftLoop_stop(h) == h

\* the while loop of liftUp without `delete child`
RECURSIVE liftLoop_keepChild(_)
liftLoop_keepChild(h) ==
  IF ~isLeaf(h[root_]) /\ numRecords(h[root_]) = 1
  THEN LET c == leftMostChild(h[root_])
       IN liftLoop_keepChild(
            [h EXCEPT ![root_] = [h[c] EXCEPT !.parent = nullptr],
                      ![c] = [h[root_] EXCEPT !.stubs = <<>>,
                                              !.stubBgnOff = PAGE_SIZE,
                                              !.totalDataSize = 0]])
  ELSE h

\* liftUp with `if` in the place of `while`
liftLoop_once(h) ==
  IF ~isLeaf(h[root_]) /\ numRecords(h[root_]) = 1
  THEN LET c == leftMostChild(h[root_])
           h1 == [h EXCEPT ![root_] = [h[c] EXCEPT !.parent = nullptr],
                           ![c] = h[root_]]
       IN free(h1, c)
  ELSE h

\* BtreeMap::liftUp, the while loop
RECURSIVE liftLoop(_)
liftLoop(h) ==
  IF ~isLeaf(h[root_]) /\ numRecords(h[root_]) = 1
  THEN LET c == leftMostChild(h[root_])
           h1 == [h EXCEPT ![root_] = [h[c] EXCEPT !.parent = nullptr],
                           ![c] = h[root_]]
       IN liftLoop(free(h1, c))
  ELSE h

\* liftUp that does not set the parent of the children of the new root
liftUp_noReparent(h) == liftLoop(h)

\* BtreeMap::liftUp
liftUp(h) ==
  With(liftLoop(h), LAMBDA h1 :
    IF ~isLeaf(h1[root_]) THEN setParentOfChildren(h1, root_, root_) ELSE h1)

\* An ItemIterator: pit is pit_.pageP_ (nullptr at the end), page and idx
\* are it_.pageP_ and it_.idx_.
ItemIt(pit, pg, idx) == [pit |-> pit, page |-> pg, idx |-> idx]

\* BtreeMap::beginItem / endItem
beginItem(h) == With(leftMostPage(h), LAMBDA pg : ItemIt(pg, pg, 0))
endItem == ItemIt(nullptr, nullptr, 0)

\* ItemIterator::isEnd and ItemIterator::operator==
itIsEnd(it) == it.pit = nullptr
itEq(a, b) ==
  IF itIsEnd(a) /\ itIsEnd(b) THEN TRUE
  ELSE IF ~itIsEnd(a) /\ ~itIsEnd(b) THEN a.pit = b.pit /\ a.idx = b.idx
  ELSE FALSE

\* ItemIterator::nextPage (private)
itNextPage(h, it) ==
  With(nextPageC(h, it.pit), LAMBDA q :
    IF q # nullptr THEN ItemIt(q, q, 0) ELSE ItemIt(q, it.page, it.idx))

\* ItemIterator::operator++
itNext(h, it) ==
  IF itIsEnd(it) THEN itNextPage(h, it)
  ELSE LET it1 == ItemIt(it.pit, it.page, it.idx + 1)
       IN IF numStub(h[it1.page]) <= it1.idx THEN itNextPage(h, it1) ELSE it1

\* ItemIterator::prevPage (private); idx_ is a uint16_t, so --it_ on the
\* end() of a page without stubs wraps around
itPrevPage(h, it) ==
  With(pageDecr(h, it.pit), LAMBDA q :
    IF q # nullptr THEN ItemIt(q, q, (numStub(h[q]) - 1) % 65536)
    ELSE ItemIt(q, it.page, it.idx))

\* ItemIterator::operator--
itPrev(h, it) ==
  IF itIsEnd(it) THEN itPrevPage(h, it)
  ELSE IF it.idx = 0 THEN itPrevPage(h, it)
  ELSE ItemIt(it.pit, it.page, (it.idx - 1) % 65536)

\* lowerBound that does not look at the next leaf
lowerBound_noNext(h, key0) ==
  LET pg == searchLeaf(h, key0)
      i == PageLowerBound(h[pg], key0)
  IN IF numStub(h[pg]) <= i THEN ItemIt(nullptr, pg, i) ELSE ItemIt(pg, pg, i)

\* BtreeMap::lowerBound
lowerBound(h, key0) ==
  With(searchLeaf(h, key0), LAMBDA pg :
  With(PageLowerBound(h[pg], key0), LAMBDA i :
    IF numStub(h[pg]) <= i
    THEN With(nextPageC(h, pg), LAMBDA nx :
           IF nx # nullptr
           THEN With(PageLowerBound(h[nx], key0), LAMBDA j :
                  IF numStub(h[nx]) <= j THEN ItemIt(nullptr, nx, j)
                  ELSE ItemIt(nx, nx, j))
           ELSE ItemIt(nullptr, pg, i))
    ELSE ItemIt(pg, pg, i)))

\* ItemIterator::erase up to its call of liftUp(): the heap and the iterator
itEraseBeforeLift(h, it) ==
  LET pg == it.page
      lastKey == keyAt(h[pg], it.idx)
  IN IF numRecords(h[pg]) = 1
     THEN LET it1 == itNextPage(h, it)
              h1 == [h EXCEPT ![pg] = eraseStub(h[pg], it.idx)]
              h2 == deleteEmptyPage(h1, pg, lastKey)
          IN [h |-> h2, it |-> it1]
     ELSE With([h EXCEPT ![pg] = eraseStub(h[pg], it.idx)], LAMBDA h1 :
          With(tryMerge(IF it.idx = 0 THEN updateMinKey(h1, pg) ELSE h1,
                        pg, it.idx), LAMBDA tm :
            [h |-> tm.h, it |-> ItemIt(it.pit, pg, tm.idx)]))

\* ItemIterator::erase: the heap and the iterator after the call
itErase(h, it) ==
  With(itEraseBeforeLift(h, it), LAMBDA r : [h |-> liftUp(r.h), it |-> r.it])

\* erase(key) without the comparison of the key found
erase_noEq(h, key0) ==
  LET it == lowerBound(h, key0)
  IN IF itIsEnd(it) THEN [h |-> h, ret |-> FALSE]
     ELSE [h |-> itErase(h, it).h, ret |-> TRUE]

\* BtreeMap::erase(const Key &)
erase(h, key0) ==
  With(lowerBound(h, key0), LAMBDA it :
    IF itIsEnd(it) THEN [h |-> h, ret |-> FALSE]
    ELSE IF keyAt(h[it.page], it.idx) # key0 THEN [h |-> h, ret |-> FALSE]
    ELSE [h |-> itErase(h, it).h, ret |-> TRUE])

\* deleteRecursive that deletes the page and not the pages below it
deleteRecursive_shallow(h, pg) == [h |-> free(h, pg), deleted |-> <<pg>>]

\* BtreeMap::deleteRecursive and its loop over the records of a branch page:
\* the heap after the call and the pages passed to `delete`, in order
RECURSIVE deleteRecursive(_, _)
RECURSIVE deleteChildren(_, _)
deleteChildren(h, pg) ==
  IF 0 # numStub(h[pg])
  THEN With(deleteRecursive(h, valueAt(h[pg], 0)), LAMBDA d :
       With(deleteChildren([d.h EXCEPT ![pg] = eraseStub(d.h[pg], 0)], pg),
            LAMBDA r :
         [h |-> r.h, deleted |-> d.deleted \o r.deleted]))
  ELSE [h |-> h, deleted |-> <<>>]
deleteRecursive(h, pg) ==
  IF isLeaf(h[pg]) THEN [h |-> free(h, pg), deleted |-> <<pg>>]
  ELSE With(deleteChildren(h, pg), LAMBDA d :
         [h |-> free(d.h, pg), deleted |-> d.deleted \o <<pg>>])

\* BtreeMap::clear: the heap after the call and the pages it deleted
clear(h) ==
  With(IF ~isLeaf(h[root_]) THEN deleteChildren(h, root_)
       ELSE [h |-> h, deleted |-> <<>>], LAMBDA d :
    [h |-> [d.h EXCEPT ![root_] = [PageClear(d.h[root_]) EXCEPT
                                     !.level = 0, !.parent = nullptr]],
     deleted |-> d.deleted])

\* BtreeMap::isValid(const Page *)
RECURSIVE isValidFrom(_, _)
isValidFrom(h, pg) ==
  IF isLeaf(h[pg]) THEN PageIsValid(h[pg])
  ELSE \A i \in 0..(numStub(h[pg]) - 1) :
         LET c == valueAt(h[pg], i) IN
           /\ h[c].level + 1 = h[pg].level
           /\ h[c].parent = pg
           /\ PageIsValid(h[c])
           /\ ~pageEmpty(h[c])
           /\ isValidFrom(h, c)
isValid(h) == isValidFrom(h, root_)

\* BtreeMap::empty
empty(h) == isLeaf(h[root_]) /\ pageEmpty(h[root_])

\* BtreeMap::size: the loop over the leaf pages
RECURSIVE sizeFrom(_, _)
sizeFrom(h, pg) ==
  IF pg = nullptr THEN 0
  ELSE numRecords(h[pg]) + sizeFrom(h, nextPageC(h, pg))
size(h) == sizeFrom(h, leftMostPage(h))


\* BtreeMap::printRecursive: the records of the leaves below pg, in the
\* order in which they are printed
RECURSIVE recordsBelow(_, _)
RECURSIVE recordsOfChildren(_, _, _)
recordsOfChildren(h, pg, i) ==
  IF i < numStub(h[pg])
  THEN recordsBelow(h, valueAt(h[pg], i)) \o recordsOfChildren(h, pg, i + 1)
  ELSE <<>>
recordsBelow(h, pg) ==
  IF isLeaf(h[pg])
  THEN [i \in 1..numStub(h[pg]) |-> <<keyAt(h[pg], i - 1), valueAt(h[pg], i - 1)>>]
  ELSE recordsOfChildren(h, pg, 0)
Contents(h) == recordsBelow(h, root_)

\* ItemIterator::key / value.  At a slot past the last stub of the page the
\* read is out of bounds (the DEBUG build aborts on the assertion); g stands
\* for whatever is read there.
itRead(h, it, g) ==
  IF it.idx < numStub(h[it.page])
  THEN <<keyAt(h[it.page], it.idx), valueAt(h[it.page], it.idx)>>
  ELSE g
Garbage == Keys \X Vals

\* the loop `it = beginItem(); while (it != endItem()) { ...; ++it; }`
RECURSIVE walkFrom(_, _, _)
walkFrom(h, it, g) ==
  IF itEq(it, endItem) THEN <<>>
  ELSE <<itRead(h, it, g)>> \o walkFrom(h, itNext(h, it), g)
Walk(h, g) == walkFrom(h, beginItem(h), g)

\* the loop `it = endItem(); while (it != beginItem()) { --it; ...; }` of
\* testBtreeMap0, cut after MaxWalk steps
RECURSIVE walkBackFrom(_, _, _, _)
walkBackFrom(h, it, g, fuel) ==
  IF itEq(it, beginItem(h)) \/ fuel = 0 THEN <<>>
  ELSE With(itPrev(h, it), LAMBDA it1 :
         <<itRead(h, it1, g)>> \o walkBackFrom(h, it1, g, fuel - 1))
WalkBack(h, g) == walkBackFrom(h, endItem, g, MaxWalk)

\* ------------------------------------------------ reference map (std::map)
NoVal == 0 - 1
refInsert(m, k, v) == IF m[k] = NoVal THEN [m EXCEPT ![k] = v] ELSE m
refErase(m, k) == [m EXCEPT ![k] = NoVal]
refHasLowerBound(m, k) == \E j \in ProbeKeys : j >= k /\ m[j] # NoVal
refLowerBound(m, k) ==
  CHOOSE j \in ProbeKeys :
    /\ j >= k /\ m[j] # NoVal
    /\ \A i \in ProbeKeys : (i >= k /\ m[i] # NoVal) => j <= i
RECURSIVE refSeqFrom(_, _)
refSeqFrom(m, k) ==
  IF k > MaxKey THEN <<>>
  ELSE (IF m[k] # NoVal THEN <<(<<k, m[k]>>)>> ELSE <<>>) \o refSeqFrom(m, k + 1)
refSeq(m) == refSeqFrom(m, 0)
refSize(m) == Cardinality({k \in ProbeKeys : m[k] # NoVal})

\* ------------------------------------------------------ state abstraction
\* The map never looks at the address of a page object or at the offset of
\* a record except to follow it, so two heaps that differ only in those
\* behave alike.  Canon picks one heap of each such class: the pages that
\* the root reaches are numbered in preorder, other live pages follow in
\* increasing order, and in every page the live records are laid out in
\* stub order from the end of the header (recEndOff is kept).
RECURSIVE preorder(_, _, _)
RECURSIVE preorderChildren(_, _, _, _)
preorderChildren(h, pg, i, fuel) ==
  IF i < numStub(h[pg])
  THEN preorder(h, valueAt(h[pg], i), fuel) \o preorderChildren(h, pg, i + 1, fuel)
  ELSE <<>>
preorder(h, pg, fuel) ==
  IF pg \notin PageIds \/ fuel = 0 THEN <<>>
  ELSE IF ~h[pg].live THEN <<>>
  ELSE IF isLeaf(h[pg]) THEN <<pg>>
  ELSE <<pg>> \o preorderChildren(h, pg, 0, fuel - 1)

RECURSIVE ascending(_)
ascending(S) ==
  IF S = {} THEN <<>>
  ELSE LET m == CHOOSE x \in S : \A y \in S : x <= y
       IN <<m>> \o ascending(S \ {m})

RECURSIVE firstIndex(_, _, _)
firstIndex(sq, x, i) ==
  IF i > Len(sq) THEN 0 ELSE IF sq[i] = x THEN i ELSE firstIndex(sq, x, i + 1)

RECURSIVE packedOff(_, _)
packedOff(stubs, i) ==
  IF i = 1 THEN HeaderSize
  ELSE packedOff(stubs, i - 1) + stubs[i - 1].keySize + stubs[i - 1].valueSize

\* the page with its records laid out in stub order (recEndOff is kept)
CanonPage(p) ==
  [p EXCEPT !.stubs = [i \in 1..Len(p.stubs) |->
                         [p.stubs[i] EXCEPT !.off = packedOff(p.stubs, i)]]]

Canon(h) ==
  LET reach == preorder(h, root_, MaxPages)
      rest == ascending({q \in PageIds : h[q].live
                           /\ \A i \in 1..Len(reach) : reach[i] # q})
      order == reach \o rest
      newId(q) == IF q = nullptr THEN nullptr
                  ELSE IF firstIndex(order, q, 1) = 0 THEN Dangling
                  ELSE firstIndex(order, q, 1) - 1
      rn(p) ==
        [p EXCEPT
           !.parent = newId(p.parent),
           !.stubs = [i \in 1..Len(p.stubs) |->
                        [p.stubs[i] EXCEPT
                           !.off = packedOff(p.stubs, i),
                           !.value = IF isLeaf(p) THEN @ ELSE newId(@)]]]
  IN [q \in PageIds |->
        IF q < Len(order) THEN rn(h[order[q + 1]]) ELSE FreedPage]

\* ----------------------------------------------------------- state machine
\* heap and ref are the map under test and the std::map beside it
\* (testBtreeMap0); page is the single page of testPage0 and mgl the Mgl
\* object that a page carries (PageX::mgl_).
VARIABLES heap, ref, page, mgl, mutex, pc, counter_, isReady_, isEnd_
vars == <<heap, ref, page, mgl, mutex, pc, counter_, isReady_, isEnd_>>

\* the workers of testSpinBtreeMapWorker
Threads == 1..NumThreads

\* BtreeMap::BtreeMap(): root_ is an empty leaf, nothing is allocated
InitHeap ==
  [q \in PageIds |->
     IF q = root_ THEN [InitPage EXCEPT !.level = 0] ELSE FreedPage]

\* a fresh BtreeMap and an empty std::map
Init ==
  /\ heap = InitHeap
  /\ ref = [k \in ProbeKeys |-> NoVal]
  /\ page = InitPage
  /\ mgl = MglNew
  /\ mutex = 0
  /\ pc = [t \in Threads |-> "waitForReady"]
  /\ counter_ = [t \in Threads |-> 0]
  /\ isReady_ = FALSE
  /\ isEnd_ = FALSE

\* m0.insert(k, v); m1.insert(make_pair(k, v))
Insert(k, v) ==
  /\ heap' = Canon(insert(heap, k, v).h)
  /\ ref' = refInsert(ref, k, v)
  /\ UNCHANGED <<page, mgl, mutex, pc, counter_, isReady_, isEnd_>>

\* m0.erase(k); m1.erase(k)
Erase(k) ==
  /\ heap' = Canon(erase(heap, k).h)
  /\ ref' = refErase(ref, k)
  /\ UNCHANGED <<page, mgl, mutex, pc, counter_, isReady_, isEnd_>>

\* it0 = m0.lowerBound(k); it0.erase(); m1.erase(m1.lower_bound(k))
EraseAt(k) ==
  LET it0 == lowerBound(heap, k) IN
  /\ ~itIsEnd(it0)
  /\ heap' = Canon(itErase(heap, it0).h)
  /\ ref' = IF refHasLowerBound(ref, k)
            THEN refErase(ref, refLowerBound(ref, k)) ELSE ref
  /\ UNCHANGED <<page, mgl, mutex, pc, counter_, isReady_, isEnd_>>

\* m0.clear(); m1.clear()
Clear ==
  /\ heap' = Canon(clear(heap).h)
  /\ ref' = [k \in ProbeKeys |-> NoVal]
  /\ UNCHANGED <<page, mgl, mutex, pc, counter_, isReady_, isEnd_>>

Next ==
  \/ \E k \in Keys : \E v \in ValsOf(k) : Insert(k, v)
  \/ \E k \in Keys : Erase(k)
  \/ \E k \in Keys : EraseAt(k)
  \/ Clear

Spec == Init /\ [][Next]_vars

\* --------------------------------------------- state machine of one page
\* The calls of testPage0 on `cybozu::Page page(cmp)`, with keys and values
\* of KeySize / ValueSize or ShortSize bytes; the comparator orders keys as
\* unsigned numbers.
PageKeys == {2 * i - 1 : i \in 1..NumPageKeys}
KeySizes == {ShortSize, KeySize}
ValueSizes == {ShortSize, ValueSize}

\* page.insert(k, v)
PInsert(k, ks, v, vs) ==
  /\ page' = CanonPage(PageInsert(page, k, ks, v, vs).page)
  /\ UNCHANGED <<heap, ref, mgl, mutex, pc, counter_, isReady_, isEnd_>>

\* page.erase(k)
PErase(k) ==
  /\ page' = CanonPage(PageErase(page, k).page)
  /\ UNCHANGED <<heap, ref, mgl, mutex, pc, counter_, isReady_, isEnd_>>

\* page.update(k, v)
PUpdate(k, v, vs) ==
  /\ page' = CanonPage(PageUpdate(page, k, v, vs).page)
  /\ UNCHANGED <<heap, ref, mgl, mutex, pc, counter_, isReady_, isEnd_>>

\* page.updateKey(it, k) with it at slot i
PUpdateKey(i, k, ks) ==
  /\ i < numStub(page)
  /\ page' = CanonPage(updateKeyStub(page, i, k, ks).page)
  /\ UNCHANGED <<heap, ref, mgl, mutex, pc, counter_, isReady_, isEnd_>>

\* it = page.begin() + i; page.erase(it)
PEraseAt(i) ==
  /\ i < numStub(page)
  /\ page' = CanonPage(pageItErase(page, i).page)
  /\ UNCHANGED <<heap, ref, mgl, mutex, pc, counter_, isReady_, isEnd_>>

\* page.gc()
PGc ==
  /\ page' = CanonPage(gc(page))
  /\ UNCHANGED <<heap, ref, mgl, mutex, pc, counter_, isReady_, isEnd_>>

PageNext ==
  \/ \E k \in PageKeys : \E ks \in KeySizes : \E v \in ValsOf(k) : \E vs \in ValueSizes :
       PInsert(k, ks, v, vs)
  \/ \E k \in PageKeys : PErase(k)
  \/ \E k \in PageKeys : \E v \in Vals : \E vs \in ValueSizes : PUpdate(k, v, vs)
  \/ \E i \in 0..(NumPageKeys - 1) : \E k \in PageKeys : \E ks \in KeySizes :
       PUpdateKey(i, k, ks)
  \/ \E i \in 0..(NumPageKeys - 1) : PEraseAt(i)
  \/ PGc

PageSpec == Init /\ [][PageNext]_vars

\* The same page filled with short records of every key, for the searches:
\* page.insert(k, 0), page.erase(k) and page.gc().
SearchNext ==
  \/ \E k \in ProbeKeys : PInsert(k, ShortSize, 0, ShortSize)
  \/ \E k \in ProbeKeys : PErase(k)
  \/ PGc

SearchSpec == Init /\ [][SearchNext]_vars

\* ----------------------------------------- state machine of several pages
\* The calls of testPage1 on page0 and on the two pages that split()
\* returns: heap[root_] is page0, the other page objects come from
\* `new Page()` inside split and go with `delete`.  Records are inserted
\* with keys of KeySize and values of ValueSize bytes.
livePageIds == {q \in PageIds : heap[q].live}

\* p.insert(k, v)
HInsert(pg, k, v) ==
  /\ heap' = [heap EXCEPT
                ![pg] = CanonPage(PageInsert(heap[pg], k, KeySize, v, ValueSize).page)]
  /\ UNCHANGED <<ref, page, mgl, mutex, pc, counter_, isReady_, isEnd_>>

\* p.erase(k)
HErase(pg, k) ==
  /\ heap' = [heap EXCEPT ![pg] = CanonPage(PageErase(heap[pg], k).page)]
  /\ UNCHANGED <<ref, page, mgl, mutex, pc, counter_, isReady_, isEnd_>>

\* p.update(k, v)
HUpdate(pg, k, v, vs) ==
  /\ heap' = [heap EXCEPT ![pg] = CanonPage(PageUpdate(heap[pg], k, v, vs).page)]
  /\ UNCHANGED <<ref, page, mgl, mutex, pc, counter_, isReady_, isEnd_>>

\* p.updateKey(it, k) with it at slot i
HUpdateKey(pg, i, k, ks) ==
  /\ i < numStub(heap[pg])
  /\ heap' = [heap EXCEPT ![pg] = CanonPage(updateKeyStub(heap[pg], i, k, ks).page)]
  /\ UNCHANGED <<ref, page, mgl, mutex, pc, counter_, isReady_, isEnd_>>

\* p.gc()
HGc(pg) ==
  /\ heap' = [heap EXCEPT ![pg] = CanonPage(gc(heap[pg]))]
  /\ UNCHANGED <<ref, page, mgl, mutex, pc, counter_, isReady_, isEnd_>>

\* p.clear()
HClear(pg) ==
  /\ heap' = [heap EXCEPT ![pg] = PageClear(heap[pg])]
  /\ UNCHANGED <<ref, page, mgl, mutex, pc, counter_, isReady_, isEnd_>>

\* auto p = page.split()
HSplit(pg) ==
  /\ Cardinality(livePageIds) + 2 <= MaxLivePages
  /\ heap' = split(heap, pg, TRUE).h
  /\ UNCHANGED <<ref, page, mgl, mutex, pc, counter_, isReady_, isEnd_>>

\* the assertions of PageX::merge: the two pages are of one level and every
\* insert of the loop returns true, that is, no key of rhs is stored in *this
mergeAsserts(p, rhs) ==
  /\ p.level = rhs.level
  /\ \A i \in 0..(numStub(rhs) - 1) : \A j \in 0..(numStub(p) - 1) :
       Compare(keyAt(rhs, i), keyAt(p, j)) # 0

\* p1.merge(p0), called where the assertions of merge hold
HMerge(pg, rhs) ==
  /\ pg # rhs
  /\ mergeAsserts(heap[pg], heap[rhs])
  /\ heap' = [heap EXCEPT
                ![pg] = CanonPage(merge(heap[pg], heap[rhs]).page),
                ![rhs] = merge(heap[pg], heap[rhs]).rhs]
  /\ UNCHANGED <<ref, page, mgl, mutex, pc, counter_, isReady_, isEnd_>>

\* delete p
HDelete(pg) ==
  /\ pg # root_
  /\ heap' = free(heap, pg)
  /\ UNCHANGED <<ref, page, mgl, mutex, pc, counter_, isReady_, isEnd_>>

\* the pages that the calls work on: page0 until it is split, then the
\* pages that split returned
workPageIds ==
  IF livePageIds = {root_} THEN {root_} ELSE livePageIds \ {root_}

\* update and updateKey are called on page0, for the first key and with
\* ShortSize bytes.
PagesNext ==
  \/ \E pg \in workPageIds : \E k \in PageKeys : HInsert(pg, k, (k \div 2) % (MaxVal + 1))
  \/ \E pg \in workPageIds : \E k \in PageKeys : HErase(pg, k)
  \/ livePageIds = {root_} /\ HUpdate(root_, 1, MaxVal, ShortSize)
  \/ livePageIds = {root_} /\ HUpdateKey(root_, 0, 1, ShortSize)
  \/ \E pg \in workPageIds : HGc(pg)
  \/ \E pg \in workPageIds : HClear(pg)
  \/ \E pg \in workPageIds : HSplit(pg)
  \/ \E pg \in workPageIds : \E rhs \in workPageIds : HMerge(pg, rhs)
  \/ \E pg \in workPageIds : HDelete(pg)

PagesSpec == Init /\ [][PagesNext]_vars

\* ------------------------------------------------ state machine of an Mgl
\* The class has no operation that changes a counter yet ("now editing"),
\* so the counters of the object are drawn from 0..MaxLock at the start;
\* the one operation is reset().
MglInit ==
  /\ heap = InitHeap
  /\ ref = [k \in ProbeKeys |-> NoVal]
  /\ page = InitPage
  /\ mgl \in [numS : 0..MaxLock, numX : 0..MaxLock, numSix : 0..MaxLock,
              numIs : 0..MaxLock, numIx : 0..MaxLock]
  /\ mutex = 0
  /\ pc = [t \in Threads |-> "waitForReady"]
  /\ counter_ = [t \in Threads |-> 0]
  /\ isReady_ = FALSE
  /\ isEnd_ = FALSE

\* mgl_.reset()
Reset ==
  /\ mgl' = MglReset(mgl)
  /\ UNCHANGED <<heap, ref, page, mutex, pc, counter_, isReady_, isEnd_>>

MglNext == Reset

MglSpec == MglInit /\ [][MglNext]_vars

\* ------------------------------------------------- deeper trees
\* A map filled by insert alone, as in the loop of random inserts of
\* testBtreeMap0,
\* with NumDeepKeys keys in any order: a branch page under the root fills
\* up and is split.
DeepKeys == {2 * i - 1 : i \in 1..NumDeepKeys}

\* m.insert(k, 0)
DInsert(k) ==
  /\ heap' = Canon(insert(heap, k, 0).h)
  /\ UNCHANGED <<ref, page, mgl, mutex, pc, counter_, isReady_, isEnd_>>

DeepNext == \E k \in DeepKeys : DInsert(k)

DeepSpec == Init /\ [][DeepNext]_vars

\* ----------------------------------------------- spinlock.hpp, bench_map.cpp

\* values of rand_() in the workers and in the loop that fills the map
SpinKeys == {2 * i - 1 : i \in 1..NumSpinKeys}

\* an exchange that reads the byte and stores nothing
exchange_noStore(l, v) == [old |-> l, lock |-> l]

\* __atomic_exchange_n(&lock_, v, flags): the value read and the byte
\* afterwards, in one atomic step
exchange(l, v) == [old |-> l, lock |-> v]

\* __atomic_clear(&lock_, flags)
atomicClear(l) == 0

\* testSpinBtreeMapWorker, `map.insert(rand(), 0)` before the workers start
Fill(k) ==
  /\ ~isReady_
  /\ heap' = Canon(insert(heap, k, 0).h)
  /\ ref' = refInsert(ref, k, 0)
  /\ UNCHANGED <<page, mgl, mutex, pc, counter_, isReady_, isEnd_>>

\* runBench, isReady.store(true)
SetReady ==
  /\ ~isReady_
  /\ isReady_' = TRUE
  /\ UNCHANGED <<heap, ref, page, mgl, mutex, pc, counter_, isEnd_>>

\* runBench, isEnd.store(true)
SetEnd ==
  /\ isReady_
  /\ ~isEnd_
  /\ isEnd_' = TRUE
  /\ UNCHANGED <<heap, ref, page, mgl, mutex, pc, counter_, isReady_>>

\* Worker::waitForReady
WaitForReady(t) ==
  /\ pc[t] = "waitForReady"
  /\ pc' = [pc EXCEPT ![t] = IF isReady_ THEN "run" ELSE "waitForReady"]
  /\ UNCHANGED <<heap, ref, page, mgl, mutex, counter_, isReady_, isEnd_>>

\* SpinBtreeMapWorker::run, the test of the while loop
Run(t) ==
  /\ pc[t] = "run"
  /\ isEnd_ \/ counter_[t] < MaxCount
  /\ pc' = [pc EXCEPT ![t] = IF isEnd_ THEN "done" ELSE "ctor"]
  /\ UNCHANGED <<heap, ref, page, mgl, mutex, counter_, isReady_, isEnd_>>

\* SpinlockT::SpinlockT with useTTAS, the read of lock_ before the exchange:
\* _mm_pause() and again when the byte read is set.  The read is a plain
\* read of a byte that other threads write, so it returns either value.
Test(t) ==
  /\ pc[t] = "ctor"
  /\ \E l \in {0, 1} :
       pc' = [pc EXCEPT ![t] = IF l # 0 THEN "ctor" ELSE "exchange"]
  /\ UNCHANGED <<heap, ref, page, mgl, mutex, counter_, isReady_, isEnd_>>

\* SpinlockT::SpinlockT, one turn of `while (__atomic_exchange_n(&lock_, 1,
\* flags)) _mm_pause();`, the first step of the constructor without useTTAS
\* and the step after the read with it
Exchange(t) ==
  /\ pc[t] \in {"ctor", "exchange"}
  /\ With(exchange(mutex, 1), LAMBDA r :
       /\ mutex' = r.lock
       /\ pc' = [pc EXCEPT ![t] = IF r.old # 0 THEN "ctor" ELSE "search"])
  /\ UNCHANGED <<heap, ref, page, mgl, counter_, isReady_, isEnd_>>

\* runCriticalSection up to `if (isDeleted)`: one turn of the search loop
\* with k and del in the place of rand_() and readPct_ <= rand_() % 10000
Search(t, k, del) ==
  /\ pc[t] = "search"
  /\ IF empty(heap)
     THEN /\ pc' = [pc EXCEPT ![t] = "count"]
          /\ UNCHANGED <<heap, ref>>
     ELSE With(lowerBound(heap, k), LAMBDA it :
            IF itIsEnd(it)
            THEN UNCHANGED <<heap, ref, pc>>
            ELSE IF del
            THEN /\ heap' = Canon(itErase(heap, it).h)
                 /\ ref' = refErase(ref, refLowerBound(ref, k))
                 /\ pc' = [pc EXCEPT ![t] = "insert"]
            ELSE /\ pc' = [pc EXCEPT ![t] = "count"]
                 /\ UNCHANGED <<heap, ref>>)
  /\ UNCHANGED <<page, mgl, mutex, counter_, isReady_, isEnd_>>

\* runCriticalSection, `if (isDeleted) map_.insert(rand_(), 0)`
InsertBack(t, k) ==
  /\ pc[t] = "insert"
  /\ heap' = Canon(insert(heap, k, 0).h)
  /\ ref' = refInsert(ref, k, 0)
  /\ pc' = [pc EXCEPT ![t] = "count"]
  /\ UNCHANGED <<page, mgl, mutex, counter_, isReady_, isEnd_>>

\* SpinBtreeMapWorker::run, counter_++
Count(t) ==
  /\ pc[t] = "count"
  /\ counter_' = [counter_ EXCEPT ![t] = @ + 1]
  /\ pc' = [pc EXCEPT ![t] = "dtor"]
  /\ UNCHANGED <<heap, ref, page, mgl, mutex, isReady_, isEnd_>>

\* SpinlockT::~SpinlockT at the end of the loop body
Dtor(t) ==
  /\ pc[t] = "dtor"
  /\ mutex' = atomicClear(mutex)
  /\ pc' = [pc EXCEPT ![t] = "run"]
  /\ UNCHANGED <<heap, ref, page, mgl, counter_, isReady_, isEnd_>>

SpinNext ==
  \/ \E k \in SpinKeys : Fill(k)
  \/ SetReady
  \/ SetEnd
  \/ \E t \in Threads : WaitForReady(t)
  \/ \E t \in Threads : Run(t)
  \/ \E t \in Threads : Test(t)
  \/ \E t \in Threads : Exchange(t)
  \/ \E t \in Threads : \E k \in SpinKeys : \E del \in BOOLEAN : Search(t, k, del)
  \/ \E t \in Threads : \E k \in SpinKeys : InsertBack(t, k)
  \/ \E t \in Threads : Count(t)
  \/ \E t \in Threads : Dtor(t)

SpinSpec == Init /\ [][SpinNext]_vars

TypeOK == \A q \in PageIds : heap[q].live \/ heap[q] = FreedPage

\* the pairs and keys that the leaves hold, and the heap pages in use
pairsOf(h) == {Contents(h)[i] : i \in 1..Len(Contents(h))}
keysOf(h) == {Contents(h)[i][1] : i \in 1..Len(Contents(h))}
valueOf(h, k) == (CHOOSE pr \in pairsOf(h) : pr[1] = k)[2]
livePages(h) == {q \in PageIds \ {root_} : h[q].live}
strictlyIncreasing(sq) == \A i \in 1..(Len(sq) - 1) : sq[i][1] < sq[i + 1][1]
noDuplicates(sq) == \A i, j \in 1..Len(sq) : i # j => sq[i] # sq[j]

\* the leaf pages from pg on, in the order of nextPage
RECURSIVE leafChainFrom(_, _)
leafChainFrom(h, pg) ==
  IF pg = nullptr THEN <<>> ELSE <<pg>> \o leafChainFrom(h, nextPageC(h, pg))
leafChain(h) == leafChainFrom(h, leftMostPage(h))

\* what a walk shows where it reads a slot that holds no record: no pair
OutOfBounds == <<0 - 1, 0 - 1>>
WalkOf(h) == Walk(h, OutOfBounds)

\* The leaves hold the pairs of the reference map, in its order.
ContentsParity == Contents(heap) = refSeq(ref)

\* On a map that holds a pair the walk from beginItem() to endItem() and
\* size() agree with the reference map.
ParityWhenNonEmpty ==
  refSize(ref) > 0 =>
    /\ \A g \in Garbage : Walk(heap, g) = refSeq(ref)
    /\ size(heap) = refSize(ref)

\* C1: after every operation the pairs read by walking from beginItem() with
\* ++ until endItem(), and size(), equal those of the reference map.
C1_WalkParity ==
  [][/\ \A g \in Garbage : Walk(heap', g) = refSeq(ref')
     /\ size(heap') = refSize(ref')]_vars

\* C2: isValid() is true after every public mutation.
C2_IsValid == isValid(heap)

\* C2 witness: a tree of three levels.
C2_Witness == heap[root_].level = 2 /\ isValid(heap)

\* C3: insert of an absent key returns true and stores the pair; no insert
\* ends with NO_SPACE, and the leaf chosen after gc / split has room.
C3_InsertAbsent ==
  \A k \in ProbeKeys, v \in Vals :
    LET r == insert(heap, k, v) IN
      /\ r.canIns
      /\ r.err # "NO_SPACE"
      /\ k \notin keysOf(heap) =>
           /\ r.ret
           /\ pairsOf(r.h) = pairsOf(heap) \cup {<<k, v>>}
           /\ Len(Contents(r.h)) = Len(Contents(heap)) + 1

\* C3 witness: an absent key whose leaf is full below a full parent, so that
\* the insert splits the leaf and the root.
C3_Witness ==
  \E k \in ProbeKeys \ keysOf(heap) :
    LET r == insert(heap, k, 0) IN
      /\ r.didSplit
      /\ heap[root_].level >= 1
      /\ r.h[root_].level > heap[root_].level
      /\ r.ret /\ <<k, 0>> \in pairsOf(r.h)

\* C4: insert of a present key returns false and changes neither the pairs,
\* nor their order, nor size(), also when the leaf is full.
C4_InsertPresent ==
  \A k \in keysOf(heap), v \in Vals :
    LET r == insert(heap, k, v) IN
      /\ ~r.ret
      /\ r.err = "KEY_EXISTS"
      /\ Contents(r.h) = Contents(heap)
      /\ size(r.h) = size(heap)
      /\ WalkOf(r.h) = Contents(heap)

\* C4 witness: a present key offered with another value while its leaf is
\* full, so that the call splits the leaf before it fails.
C4_Witness ==
  \E k \in keysOf(heap), v \in Vals :
    /\ v # valueOf(heap, k)
    /\ insert(heap, k, v).didSplit
    /\ ~insert(heap, k, v).ret

\* C5: erase(k) then insert(k, v) of a present pair both return true and
\* give back the pairs, their order and size(), with isValid() true.
C5_EraseInsert ==
  \A k \in keysOf(heap) :
    LET v == valueOf(heap, k)
        e == erase(heap, k)
        r == insert(e.h, k, v)
    IN /\ e.ret
       /\ r.ret
       /\ pairsOf(r.h) = pairsOf(heap)
       /\ Contents(r.h) = Contents(heap)
       /\ WalkOf(r.h) = Contents(heap)
       /\ WalkOf(heap) = Contents(heap)
       /\ size(r.h) = size(heap)
       /\ isValid(r.h)

\* C5 witness: the erase releases a page, and the round trip ends in another
\* page structure.
C5_Witness ==
  \E k \in keysOf(heap) :
    LET e == erase(heap, k)
        r == insert(e.h, k, valueOf(heap, k))
    IN /\ Cardinality(livePages(e.h)) < Cardinality(livePages(heap))
       /\ e.ret /\ r.ret
       /\ Canon(r.h) # heap

\* C6: erase(key) returns true iff the key is present; then exactly that pair
\* goes; otherwise the heap is left as it was.
C6_EraseByKey ==
  \A k \in ProbeKeys :
    LET e == erase(heap, k) IN
      /\ e.ret = (k \in keysOf(heap))
      /\ e.ret => Contents(e.h) = SelectSeq(Contents(heap), LAMBDA pr : pr[1] # k)
      /\ ~e.ret => e.h = heap

\* C6 witness: an absent key with a larger stored key (the lower bound is a
\* pair that must stay), and a present key in a leaf below the root.
C6_Witness ==
  /\ heap[root_].level >= 1
  /\ \E k \in ProbeKeys \ keysOf(heap) :
       ~itIsEnd(lowerBound(heap, k)) /\ ~erase(heap, k).ret
  /\ \E k \in keysOf(heap) : erase(heap, k).ret

\* C7: lowerBound(key) is at the pair with the smallest stored key >= key,
\* and is an end iterator when there is none.
C7_LowerBound ==
  \A k \in ProbeKeys :
    LET it == lowerBound(heap, k)
        ge == {j \in keysOf(heap) : j >= k}
    IN IF ge = {} THEN itIsEnd(it)
       ELSE /\ ~itIsEnd(it)
            /\ it.idx < numStub(heap[it.page])
            /\ \A j \in ge : keyAt(heap[it.page], it.idx) <= j
            /\ keyAt(heap[it.page], it.idx) \in ge
            /\ valueAt(heap[it.page], it.idx)
                 = valueOf(heap, keyAt(heap[it.page], it.idx))

\* C7 witness: the descent ends in a leaf whose keys are all smaller, and the
\* answer is the first record of the next leaf.
C7_Witness ==
  \E k \in ProbeKeys :
    LET pg == searchLeaf(heap, k) IN
      /\ numStub(heap[pg]) <= PageLowerBound(heap[pg], k)
      /\ nextPageC(heap, pg) # nullptr
      /\ lowerBound(heap, k) = ItemIt(nextPageC(heap, pg), nextPageC(heap, pg), 0)

\* C8: keys increase strictly inside every page, from the last key of a leaf
\* to the first key of the next leaf, and along the walk.
C8_StrictOrder ==
  /\ \A q \in PageIds : heap[q].live =>
       \A i \in 0..(numStub(heap[q]) - 2) : keyAt(heap[q], i) < keyAt(heap[q], i + 1)
  /\ \A i \in 1..(Len(leafChain(heap)) - 1) :
       maxKey(heap[leafChain(heap)[i]]) < minKey(heap[leafChain(heap)[i + 1]])
  /\ \A g \in Garbage : strictlyIncreasing(Walk(heap, g))

\* C8 witness: three levels, a branch page and a leaf with several records.
C8_Witness ==
  /\ heap[root_].level = 2
  /\ Len(leafChain(heap)) >= 3
  /\ \E q \in PageIds : heap[q].live /\ isLeaf(heap[q]) /\ numStub(heap[q]) >= 2

\* C9: clear() gives the state of a new map, deletes every heap page once,
\* and a second clear() changes nothing.
C9_Clear ==
  LET c == clear(heap)
      c2 == clear(c.h)
  IN /\ c.h = InitHeap
     /\ isLeaf(c.h[root_]) /\ pageEmpty(c.h[root_]) /\ c.h[root_].level = 0
     /\ c.h[root_].parent = nullptr
     /\ size(c.h) = 0
     /\ empty(c.h)
     /\ noDuplicates(c.deleted)
     /\ {c.deleted[i] : i \in 1..Len(c.deleted)} = livePages(heap)
     /\ c2.h = c.h
     /\ c2.deleted = <<>>

\* C9 witness: clear() of a tree of three levels.
C9_Witness ==
  /\ heap[root_].level = 2
  /\ Len(clear(heap).deleted) >= 5
  /\ clear(heap).h = InitHeap

\* what C10 tells of a map without pairs
emptyAndReleased(h) ==
  /\ empty(h)
  /\ isLeaf(h[root_]) /\ h[root_].level = 0
  /\ h[root_].parent = nullptr
  /\ livePages(h) = {}

\* erase(k) of every stored key, in every order, ends in such a map
RECURSIVE eraseAllOrders(_)
eraseAllOrders(h) ==
  IF keysOf(h) = {} THEN emptyAndReleased(h)
  ELSE \A k \in keysOf(h) : erase(h, k).ret /\ eraseAllOrders(erase(h, k).h)

\* C10: once erases have removed the last pair, in whatever order, empty()
\* is true, the root is a leaf at level 0 without parent, and no heap page
\* is live.
C10_ErasedToEmpty == eraseAllOrders(heap)

\* C10 witness: a tree of three levels that the erases take down.
C10_Witness ==
  /\ heap[root_].level = 2
  /\ Cardinality(keysOf(heap)) >= 3
  /\ eraseAllOrders(heap)

\* the smallest key stored below page pg, and the live branch pages
subtreeMin(h, pg) == minKey(h[leftMostFrom(h, pg)])
branchPages(h) == {q \in PageIds : h[q].live /\ ~isLeaf(h[q])}

\* C11: in every branch page the key of an entry is the smallest key below
\* its child; the first entry of a page may carry a smaller key.
C11_SeparatorIsMin ==
  \A q \in branchPages(heap) : \A i \in 0..(numStub(heap[q]) - 1) :
    IF i = 0 THEN keyAt(heap[q], i) <= subtreeMin(heap, valueAt(heap[q], i))
    ELSE keyAt(heap[q], i) = subtreeMin(heap, valueAt(heap[q], i))

\* C11 as amended: the key of an entry after the first is the smallest key
\* below its child; the key of the first entry of a page is that key or a
\* larger one (never a smaller one).
C11_SeparatorFirstAbove ==
  \A q \in branchPages(heap) : \A i \in 0..(numStub(heap[q]) - 1) :
    IF i = 0 THEN keyAt(heap[q], i) >= subtreeMin(heap, valueAt(heap[q], i))
    ELSE keyAt(heap[q], i) = subtreeMin(heap, valueAt(heap[q], i))

\* C11 witness: three levels, a first entry above the smallest key below it
\* and a branch page under the root with a second entry.
C11_Witness ==
  /\ heap[root_].level = 2
  /\ \E q \in branchPages(heap) :
       keyAt(heap[q], 0) > subtreeMin(heap, valueAt(heap[q], 0))
  /\ \E q \in branchPages(heap) : q # root_ /\ numStub(heap[q]) >= 2

\* the keys stored in the leaves below page pg
keysBelow(h, pg) == {recordsBelow(h, pg)[j][1] : j \in 1..Len(recordsBelow(h, pg))}
leafPages(h) == {q \in PageIds : h[q].live /\ isLeaf(h[q])}

\* C12: the key of an entry after the first is <= every key below its child
\* and > every key below the child of the entry before it; the descent
\* searchLeaf(k) for a stored key k ends at the leaf that holds k.
C12_SeparatorsRoute ==
  /\ \A q \in branchPages(heap) : \A i \in 1..(numStub(heap[q]) - 1) :
       /\ \A k \in keysBelow(heap, valueAt(heap[q], i)) : keyAt(heap[q], i) <= k
       /\ \A k \in keysBelow(heap, valueAt(heap[q], i - 1)) : keyAt(heap[q], i) > k
  /\ \A k \in keysOf(heap) :
       \E i \in 0..(numStub(heap[searchLeaf(heap, k)]) - 1) :
         keyAt(heap[searchLeaf(heap, k)], i) = k
  /\ \A q \in leafPages(heap) : \A i \in 0..(numStub(heap[q]) - 1) :
       searchLeaf(heap, keyAt(heap[q], i)) = q

\* C12 witness: three levels, and a stored key below the first key of the
\* root, found by the descent through the leftmost children.
C12_Witness ==
  /\ heap[root_].level = 2
  /\ \E q \in branchPages(heap) : q # root_ /\ numStub(heap[q]) >= 2
  /\ \E k \in keysOf(heap) :
       /\ searchStub(heap[root_], k) = LOWER
       /\ searchLeaf(heap, k) = leftMostPage(heap)
       /\ k = minKey(heap[leftMostPage(heap)])

\* the pages that the root reaches
reachablePages(h) ==
  {preorder(h, root_, MaxPages)[i] : i \in 1..Len(preorder(h, root_, MaxPages))}

\* every heap page in use has one entry of one reachable branch page, every
\* entry refers to a page in use, and the root object is in use and has no
\* entry
owned(h) ==
  With({p \in reachablePages(h) : ~isLeaf(h[p])}, LAMBDA B :
    /\ h[root_].live
    /\ UNION {childrenOf(h[b]) : b \in B} = livePages(h)
    /\ \A b \in B : \A i \in 0..(numStub(h[b]) - 1) :
         \A c \in B : \A j \in 0..(numStub(h[c]) - 1) :
           valueAt(h[b], i) = valueAt(h[c], j) => b = c /\ i = j
    /\ \A b \in branchPages(h) : \A i \in 0..(numStub(h[b]) - 1) :
         valueAt(h[b], i) \in livePages(h))

\* no page object was deleted twice, and the root object was not deleted
deletedOnce(h) == h[root_].live /\ \A q \in PageIds : h[q] # FreedTwice

\* C13: after every operation each heap page in use is referred to by
\* exactly one entry of one branch page that the root reaches, no entry
\* refers to a deleted page, no page is deleted twice and the root object is
\* never deleted.
C13_Ownership ==
  /\ owned(heap)
  /\ \A k \in ProbeKeys :
       With(insert(heap, k, 0).h, LAMBDA h1 : deletedOnce(h1) /\ owned(h1))
  /\ \A k \in keysOf(heap) :
       With(erase(heap, k).h, LAMBDA h1 : deletedOnce(h1) /\ owned(h1))
  /\ With(clear(heap).h, LAMBDA h1 : deletedOnce(h1) /\ owned(h1))

\* C13 witness: three levels, and an erase whose merge and lift-up delete
\* pages.
C13_Witness ==
  /\ heap[root_].level = 2
  /\ owned(heap)
  /\ \E k \in keysOf(heap) :
       /\ erase(heap, k).h[root_].level < heap[root_].level
       /\ Cardinality(livePages(erase(heap, k).h)) + 2 <= Cardinality(livePages(heap))
       /\ owned(erase(heap, k).h)

\* iterator it stands at the record of key k in heap h: its pages are in
\* use and its slot holds k
itAtKey(h, it, k) ==
  /\ ~itIsEnd(it)
  /\ h[it.pit].live /\ h[it.page].live /\ it.pit = it.page
  /\ it.idx < numStub(h[it.page])
  /\ keyAt(h[it.page], it.idx) = k

\* C14: after ItemIterator::erase() at a record the iterator stands at the
\* record with the next larger key, or equals endItem() when the largest
\* key was erased; it never refers to a deleted page.
C14_EraseIterNext ==
  \A k \in keysOf(heap) :
    LET r == itErase(heap, lowerBound(heap, k))
        gt == {j \in keysOf(heap) : j > k}
    IN IF gt = {} THEN itEq(r.it, endItem)
       ELSE \E j \in gt : (\A i \in gt : j <= i) /\ itAtKey(r.h, r.it, j)

\* ------------------------------------------------ properties of one page
\* the slots of page p, the keys it stores, and whether its stubs are in
\* strictly increasing order of key
slotsOf(p) == 0..(numStub(p) - 1)
pageKeys(p) == {keyAt(p, i) : i \in slotsOf(p)}
sortedPage(p) ==
  /\ Len(p.stubs) = numStub(p)
  /\ \A i \in 0..(numStub(p) - 2) : keyAt(p, i) < keyAt(p, i + 1)

\* the stubs of p without the one at slot j
stubsWithout(p, j) == SubSeq(p.stubs, 1, j) \o SubSeq(p.stubs, j + 2, Len(p.stubs))

PageTypeOK == sortedPage(page) /\ PageIsValid(page)

\* C15: Page::insert fails with KEY_EXISTS iff the key is stored, otherwise
\* with NO_SPACE iff keySize + valueSize + stubSize > freeSpace; a failed
\* call leaves the page as it was; a successful one writes the record at the
\* old recEndOff and adds one stub, the stubs staying sorted.
C15_PageInsert ==
  \A k \in ProbeKeys, ks \in KeySizes, v \in Vals, vs \in ValueSizes :
    LET r == PageInsert(page, k, ks, v, vs) IN
      /\ (~r.ok /\ r.err = "KEY_EXISTS") <=> k \in pageKeys(page)
      /\ k \notin pageKeys(page) =>
           ((~r.ok /\ r.err = "NO_SPACE") <=> ks + vs + StubSize > freeSpace(page))
      /\ r.ok <=> r.err = "NONE"
      /\ ~r.ok => r.page = page
      /\ r.ok =>
           /\ numStub(r.page) = numStub(page) + 1
           /\ sortedPage(r.page)
           /\ \E j \in slotsOf(r.page) :
                /\ stub(r.page, j) = [off |-> page.recEndOff, keySize |-> ks,
                                      valueSize |-> vs, key |-> k, value |-> v]
                /\ stubsWithout(r.page, j) = page.stubs
           /\ r.page.recEndOff = page.recEndOff + ks + vs
           /\ r.page.stubBgnOff = page.stubBgnOff - StubSize
           /\ r.page.totalDataSize = page.totalDataSize + ks + vs + StubSize
           /\ r.page.level = page.level /\ r.page.parent = page.parent

\* C15 witness: a page on which one call finds its key, one finds no space
\* behind an absent key, and a shorter record with that key goes between
\* two stubs.
C15_Witness ==
  /\ \E k \in pageKeys(page) :
       PageInsert(page, k, KeySize, 0, ValueSize).err = "KEY_EXISTS"
  /\ \E k \in ProbeKeys \ pageKeys(page) :
       /\ PageInsert(page, k, KeySize, 0, ValueSize).err = "NO_SPACE"
       /\ PageInsert(page, k, ShortSize, 0, ShortSize).ok
       /\ keyAt(page, 0) < k /\ k < keyAt(page, numStub(page) - 1)

\* C16: Page::erase(key) returns false and leaves the page as it was when
\* the key is not stored, also when larger keys are; when it is stored the
\* call returns true, removes the stub of that record and no other, lowers
\* totalDataSize by keySize + valueSize + stubSize and keeps recEndOff.
C16_PageErase ==
  \A k \in ProbeKeys :
    LET r == PageErase(page, k) IN
      IF k \notin pageKeys(page) THEN ~r.ok /\ r.page = page
      ELSE /\ r.ok
           /\ \E j \in slotsOf(page) :
                /\ keyAt(page, j) = k
                /\ r.page.stubs = stubsWithout(page, j)
                /\ r.page.totalDataSize =
                     page.totalDataSize
                       - (keySizeAt(page, j) + valueSizeAt(page, j) + StubSize)
           /\ r.page.recEndOff = page.recEndOff
           /\ r.page.stubBgnOff = page.stubBgnOff + StubSize

\* the slot of page p that holds key k
slotOfKey(p, k) == CHOOSE j \in slotsOf(p) : keyAt(p, j) = k

\* C17: Page::update fails with KEY_NOT_EXISTS when the key is not stored and
\* with NO_SPACE when the new value is larger than the stored one, the page
\* staying as it was; on success the value and valueSize of that record
\* change and nothing else does, and totalDataSize goes down by the
\* difference of the value sizes.
C17_PageUpdate ==
  \A k \in ProbeKeys, v \in Vals, vs \in ValueSizes :
    LET r == PageUpdate(page, k, v, vs) IN
      IF k \notin pageKeys(page)
      THEN ~r.ok /\ r.err = "KEY_NOT_EXISTS" /\ r.page = page
      ELSE LET j == slotOfKey(page, k) IN
           IF valueSizeAt(page, j) < vs
           THEN ~r.ok /\ r.err = "NO_SPACE" /\ r.page = page
           ELSE /\ r.ok
                /\ r.page =
                     [page EXCEPT
                        !.stubs[j + 1].value = v,
                        !.stubs[j + 1].valueSize = vs,
                        !.totalDataSize = @ - (valueSizeAt(page, j) - vs)]

\* C17 witness: a page with a record of a short value that refuses a longer
\* one, a record whose value is made shorter, and an absent key below a
\* stored one.
C17_Witness ==
  /\ \E k \in pageKeys(page) :
       /\ valueSizeAt(page, slotOfKey(page, k)) = ShortSize
       /\ PageUpdate(page, k, 0, ValueSize).err = "NO_SPACE"
  /\ \E k \in pageKeys(page) :
       /\ valueSizeAt(page, slotOfKey(page, k)) = ValueSize
       /\ PageUpdate(page, k, 1, ShortSize).ok
       /\ valueAt(page, slotOfKey(page, k)) # 1
  /\ \E k \in ProbeKeys \ pageKeys(page) :
       /\ isNormalIndex(lowerBoundStub(page, k))
       /\ PageUpdate(page, k, 0, ValueSize).err = "KEY_NOT_EXISTS"

\* C18: Page::updateKey at slot i fails with NO_SPACE for a longer key and
\* with INVALID_KEY for a key that is not strictly between the keys of the
\* slots beside i, the page staying as it was; on success slot i has the new
\* key, the value read at slot i is the one read before (also after a
\* shorter key), the other records are unchanged and totalDataSize goes down
\* by the difference of the key sizes.
C18_PageUpdateKey ==
  \A i \in slotsOf(page), k \in ProbeKeys, ks \in KeySizes :
    LET r == updateKeyStub(page, i, k, ks) IN
      IF keySizeAt(page, i) < ks
      THEN ~r.ok /\ r.err = "NO_SPACE" /\ r.page = page
      ELSE IF \/ 0 < i /\ ~(keyAt(page, i - 1) < k)
              \/ i < numStub(page) - 1 /\ ~(k < keyAt(page, i + 1))
      THEN ~r.ok /\ r.err = "INVALID_KEY" /\ r.page = page
      ELSE /\ r.ok
           /\ keyAt(r.page, i) = k
           /\ keySizeAt(r.page, i) = ks
           /\ valueAt(r.page, i) = valueAt(page, i)
           /\ valueSizeAt(r.page, i) = valueSizeAt(page, i)
           /\ stubsWithout(r.page, i) = stubsWithout(page, i)
           /\ r.page.totalDataSize = page.totalDataSize - (keySizeAt(page, i) - ks)

\* C19: on a sorted page searchStub returns EMPTY iff the page is empty,
\* LOWER iff key < key(0), UPPER iff key > key(n-1), and otherwise the slot
\* i with key(i) <= key and (i = n-1 or key < key(i+1)); no slot index is
\* EMPTY, LOWER or UPPER.
C19_SearchStub ==
  \A k \in ProbeKeys :
    With(searchStub(page, k), LAMBDA res :
      /\ sortedPage(page)
      /\ (res = EMPTY) <=> (numStub(page) = 0)
      /\ numStub(page) > 0 =>
           /\ (res = LOWER) <=> (k < keyAt(page, 0))
           /\ (res = UPPER) <=> (k > keyAt(page, numStub(page) - 1))
           /\ (keyAt(page, 0) <= k /\ k <= keyAt(page, numStub(page) - 1)) =>
                /\ res \in slotsOf(page)
                /\ keyAt(page, res) <= k
                /\ res = numStub(page) - 1 \/ k < keyAt(page, res + 1)
                /\ \A i \in slotsOf(page) :
                     (/\ keyAt(page, i) <= k
                      /\ (i = numStub(page) - 1 \/ k < keyAt(page, i + 1)))
                       => i = res
      /\ \A i \in slotsOf(page) : isNormalIndex(i))

\* C19 witness: a page of five records on which the search of one key ends
\* below the first key, of one above the last, of one at a slot in the
\* middle whose key is smaller, and of one at the last slot.
C19_Witness ==
  /\ numStub(page) >= 5
  /\ \E k \in ProbeKeys : searchStub(page, k) = LOWER
  /\ \E k \in ProbeKeys : searchStub(page, k) = UPPER
  /\ \E k \in ProbeKeys : \E i \in 1..(numStub(page) - 2) :
       searchStub(page, k) = i /\ keyAt(page, i) < k
  /\ \E k \in ProbeKeys : searchStub(page, k) = numStub(page) - 1

\* C20: on a sorted page lowerBoundStub returns EMPTY iff the page is empty,
\* UPPER iff key > key(n-1), and otherwise the smallest slot i with
\* key <= key(i), the slot of the key when it is stored; Page::lowerBound
\* gives numStub() for EMPTY and UPPER.
C20_LowerBoundStub ==
  \A k \in ProbeKeys :
    With(lowerBoundStub(page, k), LAMBDA res :
      /\ sortedPage(page)
      /\ (res = EMPTY) <=> (numStub(page) = 0)
      /\ numStub(page) > 0 =>
           /\ (res = UPPER) <=> (k > keyAt(page, numStub(page) - 1))
           /\ k <= keyAt(page, numStub(page) - 1) =>
                /\ res \in slotsOf(page)
                /\ k <= keyAt(page, res)
                /\ \A i \in slotsOf(page) : k <= keyAt(page, i) => res <= i
                /\ k \in pageKeys(page) => keyAt(page, res) = k
      /\ PageLowerBound(page, k) =
           IF res = EMPTY \/ res = UPPER THEN numStub(page) ELSE res)

\* C20 witness: a page of five records on which one key is above the last
\* key, one is stored in the middle, and one absent key has its lower bound
\* in the middle.
C20_Witness ==
  /\ numStub(page) >= 5
  /\ \E k \in ProbeKeys :
       lowerBoundStub(page, k) = UPPER /\ PageLowerBound(page, k) = numStub(page)
  /\ \E k \in ProbeKeys : \E i \in 1..(numStub(page) - 2) :
       lowerBoundStub(page, k) = i /\ keyAt(page, i) = k
  /\ \E k \in ProbeKeys : \E i \in 1..(numStub(page) - 2) :
       lowerBoundStub(page, k) = i /\ k < keyAt(page, i)

\* --------------------------------------------- properties of several pages
\* the records of a page in slot order, without their offsets
recordsOf(p) ==
  [i \in 1..Len(p.stubs) |->
     [key |-> p.stubs[i].key, keySize |-> p.stubs[i].keySize,
      value |-> p.stubs[i].value, valueSize |-> p.stubs[i].valueSize]]

\* C21: split() in half-and-half mode on a page of n records returns two
\* new pages of the level of the source; the left one holds the records of
\* slots [0, n/2) and the right one those of slots [n/2, n), in key order,
\* and the source page is empty afterwards.
C21_SplitHalves ==
  \A pg \in livePageIds :
    With(split(heap, pg, TRUE), LAMBDA sp :
    With(recordsOf(heap[pg]), LAMBDA recs :
      /\ sp.p0 # sp.p1
      /\ {sp.p0, sp.p1} \cap livePageIds = {}
      /\ sp.h[sp.p0].live /\ sp.h[sp.p1].live
      /\ sp.h[sp.p0].level = heap[pg].level
      /\ sp.h[sp.p1].level = heap[pg].level
      /\ recordsOf(sp.h[sp.p0]) = SubSeq(recs, 1, Len(recs) \div 2)
      /\ recordsOf(sp.h[sp.p1]) = SubSeq(recs, Len(recs) \div 2 + 1, Len(recs))
      /\ numStub(sp.h[sp.p0]) = numStub(heap[pg]) \div 2
      /\ numStub(sp.h[sp.p0]) + numStub(sp.h[sp.p1]) = numStub(heap[pg])
      /\ sortedPage(sp.h[sp.p0]) /\ sortedPage(sp.h[sp.p1])
      /\ pageEmpty(sp.h[pg]) /\ sp.h[pg].stubs = <<>>
      /\ \A q \in PageIds \ {pg, sp.p0, sp.p1} : sp.h[q] = heap[q]))

\* C21 witness: page0 was split with three records, one of them short: it
\* is empty, the left page holds one record and the right page two.
C21_Witness ==
  /\ livePageIds = {root_, 1, 2}
  /\ pageEmpty(heap[root_])
  /\ numStub(heap[1]) = 1 /\ numStub(heap[2]) = 2
  /\ keyAt(heap[1], 0) < keyAt(heap[2], 0)
  /\ keySizeAt(heap[1], 0) = ShortSize
  /\ heap[1].level = 0 /\ heap[2].level = 0
  /\ heap[1].recEndOff = HeaderSize + ShortSize + ValueSize


\* the records of a page as a set
recordSet(p) == {recordsOf(p)[i] : i \in 1..Len(p.stubs)}

\* C22: merge(other) succeeds iff other.totalDataSize <= self.freeSpace; a
\* failed merge leaves both pages unchanged; after a successful one self
\* holds the records of both pages in key order and other is empty.
C22_Merge ==
  \A pg \in livePageIds : \A rhs \in livePageIds \ {pg} :
    mergeAsserts(heap[pg], heap[rhs]) =>
      With(merge(heap[pg], heap[rhs]), LAMBDA res :
        /\ res.ok <=> (heap[rhs].totalDataSize <= freeSpace(heap[pg]))
        /\ ~res.ok => (res.page = heap[pg] /\ res.rhs = heap[rhs])
        /\ res.ok =>
             /\ recordSet(res.page) = recordSet(heap[pg]) \cup recordSet(heap[rhs])
             /\ numStub(res.page) = numStub(heap[pg]) + numStub(heap[rhs])
             /\ Len(res.page.stubs) = numStub(res.page)
             /\ sortedPage(res.page)
             /\ res.page.level = heap[pg].level
             /\ res.page.parent = heap[pg].parent
             /\ pageEmpty(res.rhs) /\ res.rhs.stubs = <<>>
             /\ res.rhs.totalDataSize = 0)

\* C22 witness: two pages with records of which the first has no room for
\* the records of the second while the second takes those of the first, and
\* the keys of the one lie between the keys of the other.
C22_Witness ==
  \E pg \in livePageIds : \E rhs \in livePageIds \ {pg} :
    /\ mergeAsserts(heap[pg], heap[rhs])
    /\ numStub(heap[pg]) = 2 /\ numStub(heap[rhs]) = 1
    /\ keyAt(heap[pg], 0) < keyAt(heap[rhs], 0)
    /\ keyAt(heap[rhs], 0) < keyAt(heap[pg], 1)
    /\ ~merge(heap[pg], heap[rhs]).ok
    /\ merge(heap[rhs], heap[pg]).ok
    /\ numStub(merge(heap[rhs], heap[pg]).page) = 3

\* C23: split() into (p0, p1) followed by p1.merge(p0) succeeds and gives a
\* page with the number of records and the sequence of records of the
\* original page.
C23_SplitMerge ==
  \A pg \in livePageIds :
    With(split(heap, pg, TRUE), LAMBDA sp :
    With(merge(sp.h[sp.p1], sp.h[sp.p0]), LAMBDA res :
      /\ mergeAsserts(sp.h[sp.p1], sp.h[sp.p0])
      /\ res.ok
      /\ numRecords(res.page) = numRecords(heap[pg])
      /\ recordsOf(res.page) = recordsOf(heap[pg])
      /\ [i \in 1..Len(res.page.stubs) |-> <<keyAt(res.page, i - 1), valueAt(res.page, i - 1)>>]
           = [i \in 1..Len(heap[pg].stubs) |-> <<keyAt(heap[pg], i - 1), valueAt(heap[pg], i - 1)>>]))

\* C23 witness: page0 was split and the right page has taken the records of
\* the left one: page0 and the left page are empty, the right page holds
\* three records, and splitting and merging it again gives its records.
C23_Witness ==
  /\ livePageIds = {root_, 1, 2}
  /\ pageEmpty(heap[root_]) /\ pageEmpty(heap[1])
  /\ heap[1].level = POISON
  /\ numStub(heap[2]) = 3
  /\ heap[2].recEndOff > HeaderSize + heap[2].totalDataSize - 3 * StubSize
  /\ numStub(merge(split(heap, 2, TRUE).h[split(heap, 2, TRUE).p1],
                   split(heap, 2, TRUE).h[split(heap, 2, TRUE).p0]).page) = 3


\* C24: gc() changes neither the records of the page nor their slot order
\* nor its parent nor its level, and leaves no dead record bytes:
\* freeSpace = (PAGE_SIZE - headerSize) - totalDataSize.
C24_Gc ==
  \A q \in PageIds : heap[q].live =>
    With(gc(heap[q]), LAMBDA g :
      /\ recordsOf(g) = recordsOf(heap[q])
      /\ numStub(g) = numStub(heap[q])
      /\ g.parent = heap[q].parent
      /\ g.level = heap[q].level
      /\ g.totalDataSize = heap[q].totalDataSize
      /\ freeSpace(g) = (PAGE_SIZE - HeaderSize) - g.totalDataSize
      /\ freeSpace(g) >= freeSpace(heap[q]))

\* C24 witness: a leaf below the root and a branch page that both hold
\* records and dead record bytes, which gc() reclaims.
C24_Witness ==
  /\ \E q \in PageIds \ {root_} :
       /\ heap[q].live /\ heap[q].parent # nullptr /\ isLeaf(heap[q])
       /\ numStub(heap[q]) >= 2
       /\ freeSpace(gc(heap[q])) > freeSpace(heap[q])
  /\ \E q \in PageIds :
       /\ heap[q].live /\ ~isLeaf(heap[q])
       /\ freeSpace(gc(heap[q])) > freeSpace(heap[q])


\* the layout of one page: the header offsets are ordered, the stub
\* directory is a whole number of stubs, every record lies in the record
\* region, no two records overlap, and totalDataSize is the sum over the
\* stubs
layoutOK(p) ==
  /\ HeaderSize <= p.recEndOff
  /\ p.recEndOff <= p.stubBgnOff
  /\ p.stubBgnOff <= PAGE_SIZE
  /\ (PAGE_SIZE - p.stubBgnOff) % StubSize = 0
  /\ Len(p.stubs) = numStub(p)
  /\ \A i \in 1..Len(p.stubs) :
       /\ HeaderSize <= p.stubs[i].off
       /\ p.stubs[i].off + p.stubs[i].keySize + p.stubs[i].valueSize <= p.recEndOff
  /\ \A i, j \in 1..Len(p.stubs) :
       i < j =>
         \/ p.stubs[i].off + p.stubs[i].keySize + p.stubs[i].valueSize <= p.stubs[j].off
         \/ p.stubs[j].off + p.stubs[j].keySize + p.stubs[j].valueSize <= p.stubs[i].off
  /\ p.totalDataSize = calcTotalDataSize(p)
  /\ PageIsValid(p)

\* C25: after any sequence of insert, erase, update, updateKey, gc, split,
\* merge and clear every page has the layout above.  The pages of a state
\* are stored with their records packed in slot order, so the formula also
\* looks at the page that each call returns, with the offsets that the call
\* wrote.
C25_Layout ==
  /\ \A q \in livePageIds : layoutOK(heap[q])
  /\ \A pg \in livePageIds :
       /\ \A k \in PageKeys : \A ks \in KeySizes : \A vs \in ValueSizes :
            layoutOK(PageInsert(heap[pg], k, ks, 0, vs).page)
       /\ \A k \in PageKeys : layoutOK(PageErase(heap[pg], k).page)
       /\ \A k \in PageKeys : \A vs \in ValueSizes :
            layoutOK(PageUpdate(heap[pg], k, 0, vs).page)
       /\ \A i \in 0..(numStub(heap[pg]) - 1) : \A k \in PageKeys : \A ks \in KeySizes :
            layoutOK(updateKeyStub(heap[pg], i, k, ks).page)
       /\ layoutOK(gc(heap[pg]))
       /\ layoutOK(PageClear(heap[pg]))
       /\ With(split(heap, pg, TRUE), LAMBDA sp :
            layoutOK(sp.h[pg]) /\ layoutOK(sp.h[sp.p0]) /\ layoutOK(sp.h[sp.p1]))
       /\ \A rhs \in livePageIds \ {pg} :
            mergeAsserts(heap[pg], heap[rhs]) =>
              /\ layoutOK(merge(heap[pg], heap[rhs]).page)
              /\ layoutOK(merge(heap[pg], heap[rhs]).rhs)

\* C25 witness: after a split one page holds two records, one with a short
\* key and a short value, behind dead record bytes, the other page holds a
\* record too, and an insert into the first page puts a third record behind
\* them.
C25_Witness ==
  \E pg \in livePageIds \ {root_} : \E rhs \in livePageIds \ {root_, pg} :
    /\ numStub(heap[pg]) = 2 /\ numStub(heap[rhs]) >= 1
    /\ \E i \in 0..1 : keySizeAt(heap[pg], i) = ShortSize
                         /\ valueSizeAt(heap[pg], i) = ShortSize
    /\ heap[pg].recEndOff - HeaderSize > heap[pg].totalDataSize - 2 * StubSize
    /\ \E k \in PageKeys :
         /\ PageInsert(heap[pg], k, KeySize, 0, ValueSize).ok
         /\ numStub(PageInsert(heap[pg], k, KeySize, 0, ValueSize).page) = 3


\* ------------------------------------------------------ properties of Mgl
\* the lock modes, the counter of a mode, the predicate of a mode, and the
\* multi-granularity compatibility matrix as the pairs of modes that exclude
\* each other
Modes == {"S", "X", "SIX", "IS", "IX"}
countOf(m, mode) ==
  IF mode = "S" THEN m.numS ELSE IF mode = "X" THEN m.numX
  ELSE IF mode = "SIX" THEN m.numSix ELSE IF mode = "IS" THEN m.numIs
  ELSE m.numIx
canLock(m, mode) ==
  IF mode = "S" THEN canS(m) ELSE IF mode = "X" THEN canX(m)
  ELSE IF mode = "SIX" THEN canSix(m) ELSE IF mode = "IS" THEN canIs(m)
  ELSE canIx(m)
Incompatible ==
  {<<"IS", "X">>,
   <<"IX", "S">>, <<"IX", "SIX">>, <<"IX", "X">>,
   <<"S", "IX">>, <<"S", "SIX">>, <<"S", "X">>,
   <<"SIX", "IX">>, <<"SIX", "S">>, <<"SIX", "SIX">>, <<"SIX", "X">>,
   <<"X", "IS">>, <<"X", "IX">>, <<"X", "S">>, <<"X", "SIX">>, <<"X", "X">>}
\* an Mgl object that holds one lock of the mode
oneLock(mode) ==
  [numS |-> IF mode = "S" THEN 1 ELSE 0, numX |-> IF mode = "X" THEN 1 ELSE 0,
   numSix |-> IF mode = "SIX" THEN 1 ELSE 0, numIs |-> IF mode = "IS" THEN 1 ELSE 0,
   numIx |-> IF mode = "IX" THEN 1 ELSE 0]

\* C28: for every value of the counters a mode can be locked iff the count
\* of every mode incompatible with it in the compatibility matrix is zero;
\* the relation "a lock of mode b refuses mode a" is symmetric; after
\* construction and after reset() every mode can be locked.
C28_MglMatrix ==
  /\ \A a \in Modes :
       canLock(mgl, a) <=>
         \A b \in Modes : <<a, b>> \in Incompatible => countOf(mgl, b) = 0
  /\ \A a, b \in Modes : ~canLock(oneLock(b), a) <=> <<a, b>> \in Incompatible
  /\ \A a, b \in Modes : ~canLock(oneLock(b), a) <=> ~canLock(oneLock(a), b)
  /\ \A a \in Modes : canLock(MglReset(mgl), a) /\ canLock(MglNew, a)

\* C28 witness: an object with S and IS locks and no other, which takes
\* further S and IS locks and refuses IX, SIX and X.
C28_Witness ==
  /\ mgl.numS = MaxLock /\ mgl.numIs > 0
  /\ mgl.numX = 0 /\ mgl.numSix = 0 /\ mgl.numIx = 0
  /\ canS(mgl) /\ canIs(mgl) /\ ~canIx(mgl) /\ ~canSix(mgl) /\ ~canX(mgl)


\* ------------------------------------------- properties of the leaf chain
\* the leaf pages from pg back, in the order of prevPage
RECURSIVE leafChainBackFrom(_, _)
leafChainBackFrom(h, pg) ==
  IF pg = nullptr THEN <<>> ELSE <<pg>> \o leafChainBackFrom(h, prevPageC(h, pg))
leafChainBack(h) == leafChainBackFrom(h, rightMostPage(h))

\* C29: for the leaf-page iterator nullptr is the end: ++ on the end gives
\* the leftmost leaf and -- on the end the rightmost leaf, ++ on the
\* rightmost leaf and -- on the leftmost leaf give the end, and every ++ and
\* -- changes the position (assert(pageP_ != p)).
C29_PageIterator ==
  /\ pageIncr(heap, nullptr) = leftMostPage(heap)
  /\ pageDecr(heap, nullptr) = rightMostPage(heap)
  /\ leftMostPage(heap) \in leafPages(heap)
  /\ rightMostPage(heap) \in leafPages(heap)
  /\ \A q \in leafPages(heap) :
       /\ keysBelow(heap, q) # {} =>
            /\ minKey(heap[leftMostPage(heap)]) <= minKey(heap[q])
            /\ maxKey(heap[q]) <= maxKey(heap[rightMostPage(heap)])
  /\ pageIncr(heap, rightMostPage(heap)) = nullptr
  /\ pageDecr(heap, leftMostPage(heap)) = nullptr
  /\ \A q \in leafPages(heap) \cup {nullptr} :
       /\ pageIncr(heap, q) # q
       /\ pageDecr(heap, q) # q
       /\ pageIncr(heap, q) \in leafPages(heap) \cup {nullptr}
       /\ pageDecr(heap, q) \in leafPages(heap) \cup {nullptr}

\* C29 witness: a tree of three levels with at least four leaves, in which
\* ++ and -- on a leaf in the middle give other leaves.
C29_Witness ==
  /\ heap[root_].level = 2
  /\ Cardinality(leafPages(heap)) >= 4
  /\ \E q \in leafPages(heap) :
       /\ pageIncr(heap, q) \in leafPages(heap)
       /\ pageDecr(heap, q) \in leafPages(heap)
       /\ heap[pageIncr(heap, q)].parent # heap[q].parent

\* C30: from the leftmost leaf nextPage visits every leaf once, in
\* increasing key order, and gives nullptr after the rightmost leaf;
\* prevPage from the rightmost leaf visits the same leaves in the reverse
\* order; parentRecord(p) is the entry of the parent whose value is p.
C30_LeafChain ==
  With(leafChain(heap), LAMBDA chain :
    /\ {chain[i] : i \in 1..Len(chain)} = leafPages(heap)
    /\ Len(chain) = Cardinality(leafPages(heap))
    /\ chain[1] = leftMostPage(heap)
    /\ chain[Len(chain)] = rightMostPage(heap)
    /\ nextPageC(heap, chain[Len(chain)]) = nullptr
    /\ \A i \in 1..(Len(chain) - 1) :
         maxKey(heap[chain[i]]) < minKey(heap[chain[i + 1]])
    /\ leafChainBack(heap) = [i \in 1..Len(chain) |-> chain[Len(chain) + 1 - i]]
    /\ \A q \in livePages(heap) :
         /\ parentRecord(heap, q) < numStub(heap[heap[q].parent])
         /\ valueAt(heap[heap[q].parent], parentRecord(heap, q)) = q)

\* C30 witness: a tree of three levels with a chain of four leaves under
\* two branch pages, where nextPage and prevPage go through the root.
C30_Witness ==
  /\ heap[root_].level = 2
  /\ Len(leafChain(heap)) >= 4
  /\ Len(leafChainBack(heap)) >= 4
  /\ \E i \in 1..(Len(leafChain(heap)) - 1) :
       heap[leafChain(heap)[i]].parent # heap[leafChain(heap)[i + 1]].parent
  /\ \A q \in leafPages(heap) :
       valueAt(heap[heap[q].parent], parentRecord(heap, q)) = q

\* C26: when the allocation of the second fresh page fails in split(), the
\* first fresh page is released before the exception leaves split(): the
\* live page objects are those from before the call and the source page is
\* unchanged.
C26_SplitAllocFailure ==
  \A pg \in livePageIds :
    With(splitThrow(heap, pg, 1), LAMBDA r :
      /\ r.thrown
      /\ {q \in PageIds : r.h[q].live} = livePageIds
      /\ r.h[pg] = heap[pg])

\* C27: when an allocation fails anywhere in BtreeMap::insert (the gc of
\* the leaf, the split of the leaf, the gc or the split of an ancestor), the
\* exception leaves a tree with the page objects and the pairs from before
\* the call that passes isValid(), and the leaf is as it was or compacted.
C27_InsertAllocFailure ==
  \A k \in ProbeKeys : \A b \in 0..MaxAllocs :
    With(insertThrow(heap, k, 0, b), LAMBDA r :
      r.thrown =>
        /\ livePages(r.h) = livePages(heap)
        /\ Contents(r.h) = Contents(heap)
        /\ isValid(r.h)
        /\ r.h[searchLeaf(heap, k)] = heap[searchLeaf(heap, k)]
             \/ r.h[searchLeaf(heap, k)] = gc(heap[searchLeaf(heap, k)]))

\* the positions of the items, in key order: every slot of every leaf of
\* the leaf chain
RECURSIVE slotsFrom(_, _, _)
slotsFrom(h, pg, i) ==
  IF i < numStub(h[pg]) THEN <<ItemIt(pg, pg, i)>> \o slotsFrom(h, pg, i + 1)
  ELSE <<>>
RECURSIVE itemsOfChain(_, _)
itemsOfChain(h, ch) ==
  IF ch = <<>> THEN <<>>
  ELSE slotsFrom(h, Head(ch), 0) \o itemsOfChain(h, Tail(ch))
itemPositions(h) == itemsOfChain(h, leafChain(h))
Reverse(sq) == [i \in 1..Len(sq) |-> sq[Len(sq) + 1 - i]]

\* ++ and -- between the positions of the items of the map h
itemStepsOK(h) ==
  LET ps == itemPositions(h) IN
  /\ \A i \in 1..Len(ps) :
       /\ itRead(h, ps[i], OutOfBounds) = Contents(h)[i]
       /\ itEq(itNext(h, ps[i]), IF i = Len(ps) THEN endItem ELSE ps[i + 1])
       /\ i < Len(ps) => itNext(h, ps[i]) = ps[i + 1]
       /\ itEq(itPrev(h, itNext(h, ps[i])), ps[i])
       /\ i > 1 => itPrev(h, ps[i]) = ps[i - 1]
  /\ Len(ps) > 0 /\ itPrev(h, endItem) = ps[Len(ps)]
  /\ itIsEnd(itNext(h, itPrev(h, endItem)))

\* the backward walk reads the pairs of the forward walk in reverse
backIsReverse(h) ==
  \A g \in Garbage : WalkBack(h, g) = Reverse(Walk(h, g))

\* On a map that holds a pair ++ and -- are inverse steps along the items
\* in key order and the backward walk is the forward walk reversed.
ItemIteratorWhenNonEmpty ==
  ~empty(heap) => itemStepsOK(heap) /\ backIsReverse(heap)

\* C31: ItemIterator ++ moves to the item with the next larger key (slot 0
\* of the next leaf after the last slot of a leaf, the end after the last
\* item) and -- is its inverse (from the end to the last item, from slot 0
\* to the last slot of the previous leaf), so that walking backward from
\* endItem() until beginItem() reads the forward walk in reverse.
C31_ItemIterator ==
  itemStepsOK(heap) /\ backIsReverse(heap)


\* the page that the root ends up holding: the first page on the way down
\* from pg that is a leaf or has more than one entry
RECURSIVE soleDescendant(_, _)
soleDescendant(h, pg) ==
  IF ~isLeaf(h[pg]) /\ numRecords(h[pg]) = 1
  THEN soleDescendant(h, leftMostChild(h[pg])) ELSE pg
RECURSIVE soleChain(_, _)
soleChain(h, pg) ==
  IF ~isLeaf(h[pg]) /\ numRecords(h[pg]) = 1
  THEN {leftMostChild(h[pg])} \cup soleChain(h, leftMostChild(h[pg])) ELSE {}

\* liftUp() applied to the heap pre gives the heap post
liftUpOK(pre, post) ==
  LET d == soleDescendant(pre, root_)
      kids == IF isLeaf(post[root_]) THEN {} ELSE childrenOf(post[root_]) IN
  /\ isLeaf(post[root_]) \/ numRecords(post[root_]) >= 2
  /\ post[root_].parent = nullptr
  /\ \A c \in kids : post[c].live /\ post[c].parent = root_
  /\ recordsOf(post[root_]) = recordsOf(pre[d])
  /\ post[root_].level = pre[d].level
  /\ post[root_].level = pre[root_].level - Cardinality(soleChain(pre, root_))
  /\ livePages(post) = livePages(pre) \ soleChain(pre, root_)
  /\ \A q \in PageIds \ ({root_} \cup soleChain(pre, root_)
                          \cup kids) : post[q] = pre[q]
  /\ \A c \in kids : post[c] = [pre[c] EXCEPT !.parent = root_]

\* C32: after every completed erase the root is a leaf or a branch with at
\* least two entries: liftUp has replaced the root's contents by those of
\* its sole child, freed that child and lowered the root level by one for
\* as long as the root was a branch with one entry, the children of the
\* root point to the root and the root has no parent.
C32_LiftUp ==
  \A k \in Keys :
    With(lowerBound(heap, k), LAMBDA it :
      ~itIsEnd(it) =>
        With(itEraseBeforeLift(heap, it).h, LAMBDA pre :
          /\ liftUpOK(pre, liftUp(pre))
          /\ liftUp(pre) = itErase(heap, it).h
          /\ keyAt(heap[it.page], it.idx) = k => liftUp(pre) = erase(heap, k).h))

\* an erase after which liftUp lowers a root of level 2 with one entry to a
\* branch of level 1 and sets the parent of its children
C32_Witness ==
  \E k \in Keys :
    With(lowerBound(heap, k), LAMBDA it :
      /\ ~itIsEnd(it)
      /\ With(itEraseBeforeLift(heap, it).h, LAMBDA pre :
           /\ pre[root_].level = 2 /\ numRecords(pre[root_]) = 1
           /\ liftUp(pre)[root_].level = 1
           /\ \E c \in childrenOf(liftUp(pre)[root_]) : pre[c].parent # root_))

\* an erase after which liftUp lowers the root by two levels
C32_WitnessTwice ==
  \E k \in Keys :
    With(lowerBound(heap, k), LAMBDA it :
      /\ ~itIsEnd(it)
      /\ Cardinality(soleChain(itEraseBeforeLift(heap, it).h, root_)) = 2)


\* the entries of the live branch pages of h
entriesOf(h) ==
  {[page |-> q, key |-> keyAt(h[q], i), child |-> valueAt(h[q], i)] :
     <<q, i>> \in {x \in branchPages(h) \X (0..(NumKeys + 1)) :
                     x[2] < numStub(h[x[1]])}}
entriesFor(h, c) == {e \in entriesOf(h) : e.child = c}
keyChild(E, X) == {<<e.key, e.child>> : e \in {d \in E : d.child \notin X}}

\* the heap rh on return of a split of the page pg of the heap h into the
\* pages p0 and p1
splitPost(h, rh, pg, p0, p1) ==
  LET changed == {q \in PageIds : h[q].live # rh[q].live} \cup {pg, p0, p1} IN
  /\ rh[p0].live /\ rh[p1].live /\ p0 # p1
  /\ ~pageEmpty(rh[p0]) /\ ~pageEmpty(rh[p1])
  /\ rh[p0].level = h[pg].level /\ rh[p1].level = h[pg].level
  /\ entriesFor(rh, p0) =
       {[page |-> rh[p0].parent, key |-> minKey(rh[p0]), child |-> p0]}
  /\ entriesFor(rh, p1) =
       {[page |-> rh[p1].parent, key |-> minKey(rh[p1]), child |-> p1]}
  /\ pg # root_ => entriesFor(rh, pg) = {} /\ ~rh[pg].live
  /\ keyChild(entriesOf(rh), changed) = keyChild(entriesOf(h), changed)
  /\ recordsOf(rh[p0]) \o recordsOf(rh[p1]) = recordsOf(h[pg])
  /\ ~isLeaf(h[pg]) =>
       /\ \A c \in childrenOf(rh[p0]) : rh[c].parent = p0
       /\ \A c \in childrenOf(rh[p1]) : rh[c].parent = p1

\* the heap in which splitLeaf / splitNonLeaf of pg looks at the parent:
\* the page is split, the levels are set and the parent is compacted when
\* it has no room
beforeParent(h, pg) ==
  With(split(h, pg, TRUE), LAMBDA sp :
  With([sp.h EXCEPT ![sp.p0].level = h[pg].level,
                    ![sp.p1].level = h[pg].level], LAMBDA h1 :
    [h |-> IF h[pg].parent # nullptr
              /\ ~canInsert(h1[h[pg].parent], KeySize + PtrSize)
           THEN [h1 EXCEPT ![h[pg].parent] = gc(h1[h[pg].parent])] ELSE h1,
     p0 |-> sp.p0, p1 |-> sp.p1,
     k0 |-> minKey(sp.h[sp.p0]), k1 |-> minKey(sp.h[sp.p1])]))
splitsParent(h, pg) ==
  /\ h[pg].parent # nullptr
  /\ ~canInsert(beforeParent(h, pg).h[h[pg].parent], KeySize + PtrSize)

\* every run of splitNonLeaf from splitNonLeaf(pg, key0, key1) upward
\* returns a heap as the claim says, and the pages for key0 and key1
RECURSIVE splitNonLeafOK(_, _, _, _)
splitNonLeafOK(h, pg, key0, key1) ==
  With(beforeParent(h, pg), LAMBDA bp :
  With(splitNonLeaf(h, pg, key0, key1), LAMBDA r :
    /\ splitPost(h, r.h, pg, bp.p0, bp.p1)
    /\ r.r0 = (IF key0 < minKey(r.h[bp.p1]) THEN bp.p0 ELSE bp.p1)
    /\ r.r1 = (IF key1 < minKey(r.h[bp.p1]) THEN bp.p0 ELSE bp.p1)
    /\ splitsParent(h, pg) => splitNonLeafOK(bp.h, h[pg].parent, bp.k0, bp.k1)))

\* the same for splitLeaf(pg, key0)
splitLeafOK(h, pg, key0) ==
  With(beforeParent(h, pg), LAMBDA bp :
  With(splitLeaf(h, pg, key0), LAMBDA r :
    /\ splitPost(h, r.h, pg, bp.p0, bp.p1)
    /\ r.p = (IF key0 < minKey(r.h[bp.p1]) THEN bp.p0 ELSE bp.p1)
    /\ splitsParent(h, pg) => splitNonLeafOK(bp.h, h[pg].parent, bp.k0, bp.k1)))

\* the heap in which insert(key0, ..) calls splitLeaf
beforeSplitLeaf(h, key0) ==
  With(searchLeaf(h, key0), LAMBDA pg :
    IF ~canInsert(h[pg], KeySize + ValueSize) /\ shouldGc(h[pg])
    THEN [h EXCEPT ![pg] = gc(h[pg])] ELSE h)

\* C33: each time splitLeaf or splitNonLeaf runs, the two resulting pages
\* are non-empty and on return the live branch pages hold exactly one entry
\* (p0.minKey, p0) and one entry (p1.minKey, p1), in the pages that are the
\* parents of p0 and p1, no entry refers to the split page, the entries of
\* the other children are unchanged, the children of a split branch page
\* point to the page that holds their entry, and splitLeaf returns p0 if
\* key < p1.minKey and p1 otherwise.
C33_Split ==
  \A k \in DeepKeys :
    insert(heap, k, 0).didSplit =>
      splitLeafOK(beforeSplitLeaf(heap, k), searchLeaf(heap, k), k)

\* the key of the entry of pg in its parent
entryKey(h, pg) == (CHOOSE e \in entriesFor(h, pg) : TRUE).key

\* an insert whose splitLeaf finds the branch page above the leaf full, and
\* that page is not the root: splitNonLeaf runs below the root
C33_Witness ==
  \E k \in DeepKeys :
    /\ insert(heap, k, 0).didSplit
    /\ splitsParent(beforeSplitLeaf(heap, k), searchLeaf(heap, k))
    /\ heap[heap[searchLeaf(heap, k)].parent].parent # nullptr

\* an insert that splits a leaf whose entry has a key above its smallest key
C33_WitnessStale ==
  \E k \in DeepKeys :
    /\ insert(heap, k, 0).didSplit
    /\ searchLeaf(heap, k) # root_
    /\ entryKey(heap, searchLeaf(heap, k)) > minKey(heap[searchLeaf(heap, k)])


\* the slot of the entry of pg in its parent, and the ancestors of pg whose
\* entry updateMinKey(pg) rewrites: pg itself, and the parent of such a page
\* when the entry of that page is at slot 0
entrySlot(h, pg) ==
  CHOOSE i \in 0..(numStub(h[h[pg].parent]) - 1) : valueAt(h[h[pg].parent], i) = pg
RECURSIVE rewritten(_, _)
rewritten(h, pg) ==
  IF isRoot(h[pg]) THEN {}
  ELSE {pg} \cup (IF entrySlot(h, pg) = 0 THEN rewritten(h, h[pg].parent) ELSE {})

\* the calls parent->updateKey(it, key) of updateMinKey(pg) and of its
\* recursive calls are made on the entry of the page and return true
RECURSIVE updateKeyCallsOK(_, _)
updateKeyCallsOK(h, pg) ==
  isRoot(h[pg]) \/
    With(parentRecord(h, pg), LAMBDA i :
    With(updateKeyStub(h[h[pg].parent], i, minKey(h[pg]), KeySize), LAMBDA u :
      /\ i < numStub(h[h[pg].parent])
      /\ valueAt(h[h[pg].parent], i) = pg
      /\ u.ok
      /\ i = 0 => updateKeyCallsOK([h EXCEPT ![h[pg].parent] = u.page],
                                   h[pg].parent)))

\* updateMinKey(pg) on the heap h gives the heap rh
updateMinKeyOK(h, rh, pg) ==
  /\ updateKeyCallsOK(h, pg)
  /\ entriesOf(rh) =
       {IF e.child \in rewritten(h, pg) THEN [e EXCEPT !.key = minKey(h[pg])]
        ELSE e : e \in entriesOf(h)}
  /\ \A q \in PageIds :
       /\ Len(rh[q].stubs) = Len(h[q].stubs)
       /\ rh[q] = [h[q] EXCEPT !.stubs = rh[q].stubs]
       /\ \A i \in 1..Len(h[q].stubs) :
            /\ rh[q].stubs[i] = [h[q].stubs[i] EXCEPT !.key = rh[q].stubs[i].key]
            /\ rh[q].stubs[i] # h[q].stubs[i] =>
                 h[q].stubs[i].value \in rewritten(h, pg) /\ ~isLeaf(h[q])

\* the leaves that keep a record when the record of slot 0 is erased
leavesToTrim(h) == {q \in leafPages(h) : numRecords(h[q]) >= 2}

\* C34: when ItemIterator::erase removes the record of slot 0 of a leaf that
\* keeps a record, updateMinKey rewrites the entry of the leaf in its parent
\* to the new smallest key of the leaf, and the entry of each ancestor for
\* as long as the entry rewritten last is at slot 0 of its page; every
\* updateKey call returns true and the other entries are unchanged.
C34_UpdateMinKey ==
  \A pg \in leavesToTrim(heap) :
    With([heap EXCEPT ![pg] = eraseStub(heap[pg], 0)], LAMBDA h1 :
      /\ updateMinKeyOK(h1, updateMinKey(h1, pg), pg)
      /\ itEraseBeforeLift(heap, ItemIt(pg, pg, 0)).h
           = tryMerge(updateMinKey(h1, pg), pg, 0).h)

\* a leaf with two records at slot 0 of a branch page below the root whose
\* entry in the root is not at slot 0: the erase of its first record
\* rewrites two entries and changes both keys
C34_Witness ==
  \E pg \in leavesToTrim(heap) :
    With([heap EXCEPT ![pg] = eraseStub(heap[pg], 0)], LAMBDA h1 :
      /\ Cardinality(rewritten(h1, pg)) = 2
      /\ \A q \in rewritten(h1, pg) :
           entryKey(updateMinKey(h1, pg), q) # entryKey(heap, q)
      /\ entrySlot(heap, heap[pg].parent) # 0)


\* the pages that deleteEmptyPage(pg) deletes: pg, and the parent of such a
\* page when that page is its only child and it is not the root; and the
\* page that keeps the others: the parent of the last page deleted
RECURSIVE emptied(_, _)
emptied(h, pg) ==
  IF isRoot(h[pg]) THEN {}
  ELSE {pg} \cup (IF numRecords(h[h[pg].parent]) = 1
                  THEN emptied(h, h[pg].parent) ELSE {})
RECURSIVE keeper(_, _)
keeper(h, pg) ==
  IF isRoot(h[h[pg].parent]) \/ numRecords(h[h[pg].parent]) > 1
  THEN h[pg].parent ELSE keeper(h, h[pg].parent)
RECURSIVE keptChild(_, _)
keptChild(h, pg) ==
  IF isRoot(h[h[pg].parent]) \/ numRecords(h[h[pg].parent]) > 1
  THEN pg ELSE keptChild(h, h[pg].parent)

\* the calls parent->search(key) of deleteEmptyPage(pg, key) and of its
\* recursive calls find the entry of the page
RECURSIVE searchCallsOK(_, _, _)
searchCallsOK(h, pg, key0) ==
  isRoot(h[pg]) \/
    With(PageSearch(h[h[pg].parent], key0, FALSE, FALSE), LAMBDA i :
      /\ i < numStub(h[h[pg].parent])
      /\ valueAt(h[h[pg].parent], i) = pg
      /\ numStub(h[h[pg].parent]) = 1 =>
           searchCallsOK([h EXCEPT ![h[pg].parent] = eraseStub(h[h[pg].parent], i)],
                         h[pg].parent, key0))

\* the heap h without the pages of emptied(h, pg) and without the entry of
\* the last of them
withoutEmptied(h, pg) ==
  [q \in PageIds |->
     IF q \in emptied(h, pg) THEN FreedPage
     ELSE IF q = keeper(h, pg)
     THEN eraseStub(h[q], entrySlot(h, keptChild(h, pg)))
     ELSE h[q]]

\* deleteEmptyPage(pg, key0) on the heap h gives the heap rh
deleteEmptyPageOK(h, rh, pg, key0) ==
  With(withoutEmptied(h, pg), LAMBDA h2 :
    /\ searchCallsOK(h, pg, key0)
    /\ livePages(rh) = livePages(h) \ emptied(h, pg)
    /\ \A q \in emptied(h, pg) : rh[q] = FreedPage
    /\ \A q \in livePages(rh) : ~pageEmpty(rh[q])
    /\ \A e \in entriesOf(rh) : e.child \notin emptied(h, pg)
    /\ IF ~pageEmpty(h2[keeper(h, pg)]) /\ entrySlot(h, keptChild(h, pg)) = 0
       THEN /\ updateMinKeyOK(h2, rh, keeper(h, pg))
            /\ rh = updateMinKey(h2, keeper(h, pg))
       ELSE rh = h2)

\* the leaves below the root that hold one record
lastRecordLeaves(h) == {q \in leafPages(h) \ {root_} : numRecords(h[q]) = 1}

\* C35: when ItemIterator::erase removes the only record of a leaf that is
\* not the root, deleteEmptyPage finds the entry of the leaf in its parent
\* by the erased key, erases it and frees the leaf, and does the same for
\* every ancestor that becomes empty and is not the root; no empty page
\* remains below the root, and when the entry removed last was at slot 0 of
\* a page that keeps an entry the entries of its ancestors are rewritten to
\* the new smallest key of that page.
C35_DeleteEmptyPage ==
  \A pg \in lastRecordLeaves(heap) :
    With([heap EXCEPT ![pg] = eraseStub(heap[pg], 0)], LAMBDA h1 :
      /\ deleteEmptyPageOK(h1, deleteEmptyPage(h1, pg, keyAt(heap[pg], 0)),
                           pg, keyAt(heap[pg], 0))
      /\ itEraseBeforeLift(heap, ItemIt(pg, pg, 0)).h
           = deleteEmptyPage(h1, pg, keyAt(heap[pg], 0)))

\* the only record of a leaf is erased and the entry removed last was at
\* slot 0 of a page below the root that keeps an entry: the entry of that
\* page in its parent gets a new key
C35_Witness ==
  \E pg \in lastRecordLeaves(heap) :
    With([heap EXCEPT ![pg] = eraseStub(heap[pg], 0)], LAMBDA h1 :
      /\ entrySlot(h1, keptChild(h1, pg)) = 0
      /\ ~isRoot(h1[keeper(h1, pg)])
      /\ entryKey(deleteEmptyPage(h1, pg, keyAt(heap[pg], 0)), keeper(h1, pg))
           # entryKey(heap, keeper(h1, pg)))

\* the only record of a leaf is erased and the leaf and its parent are
\* deleted
C35_WitnessTwo ==
  \E pg \in lastRecordLeaves(heap) :
    Cardinality(emptied([heap EXCEPT ![pg] = eraseStub(heap[pg], 0)], pg)) = 2


\* the entries of a branch page in slot order, as <<key, child>>
entrySeq(p) == [i \in 1..numStub(p) |-> <<keyAt(p, i - 1), valueAt(p, i - 1)>>]
seqWithout(sq, j) == [i \in 1..(Len(sq) - 1) |-> IF i < j THEN sq[i] ELSE sq[i + 1]]
capacity == PAGE_SIZE - HeaderSize

\* the page whose entry stands before the entry of pg in its parent
leftSibling(h, pg) == valueAt(h[h[pg].parent], entrySlot(h, pg) - 1)

\* the cases in which tryMerge(pg) does nothing
noMerge(h, pg) ==
  \/ isRoot(h[pg])
  \/ capacity < 3 * h[pg].totalDataSize
  \/ entrySlot(h, pg) = 0
  \/ capacity < h[leftSibling(h, pg)].totalDataSize + h[pg].totalDataSize

\* tryMerge(pg) up to its recursive call, s, on the heap h
mergeStepOK(h, s, pg) ==
  IF noMerge(h, pg) THEN ~s.merged /\ s.h = h
  ELSE
    LET left == leftSibling(h, pg)
        parent == h[pg].parent
        j == entrySlot(h, pg)
        moved == IF isLeaf(h[left]) THEN {} ELSE childrenOf(h[left])
    IN /\ s.merged
       /\ s.n = numRecords(h[left])
       /\ s.i0 = j - 1
       /\ recordsOf(s.h[pg]) = recordsOf(h[left]) \o recordsOf(h[pg])
       /\ s.h[pg].level = h[pg].level /\ s.h[pg].parent = parent
       /\ s.h[pg].totalDataSize = h[left].totalDataSize + h[pg].totalDataSize
       /\ PageIsValid(s.h[pg])
       /\ s.h[left] = FreedPage
       /\ \A c \in moved : s.h[c] = [h[c] EXCEPT !.parent = pg]
       /\ entrySeq(s.h[parent]) =
            [seqWithout(entrySeq(h[parent]), j) EXCEPT
               ![j] = <<keyAt(h[parent], j - 1), pg>>]
       /\ s.h[parent].level = h[parent].level
       /\ s.h[parent].parent = h[parent].parent
       /\ \A q \in PageIds \ ({pg, left, parent} \cup moved) : s.h[q] = h[q]

\* tryMerge(pg) and each of its recursive calls on the parent page
RECURSIVE mergeLevelsOK(_, _)
mergeLevelsOK(h, pg) ==
  With(tryMergeStep(h, pg), LAMBDA s :
    /\ mergeStepOK(h, s, pg)
    /\ s.merged => mergeLevelsOK(s.h, h[pg].parent))
RECURSIVE mergedHeap(_, _)
mergedHeap(h, pg) ==
  With(tryMergeStep(h, pg), LAMBDA s :
    IF s.merged THEN mergedHeap(s.h, h[pg].parent) ELSE h)
RECURSIVE mergeDepth(_, _)
mergeDepth(h, pg) ==
  With(tryMergeStep(h, pg), LAMBDA s :
    IF s.merged THEN 1 + mergeDepth(s.h, h[pg].parent) ELSE 0)

\* the cursor idx of the page pg of h and the cursor r.idx of r.h designate
\* the same record, or both the end of the page
sameRecord(h, r, pg, idx) ==
  IF idx < numStub(h[pg])
  THEN /\ r.idx < numStub(r.h[pg])
       /\ recordsOf(r.h[pg])[r.idx + 1] = recordsOf(h[pg])[idx + 1]
  ELSE r.idx = numStub(r.h[pg])

\* the heap on which ItemIterator::erase at slot idx of the leaf pg calls
\* tryMerge
beforeTryMerge(h, pg, idx) ==
  With([h EXCEPT ![pg] = eraseStub(h[pg], idx)], LAMBDA h1 :
    IF idx = 0 THEN updateMinKey(h1, pg) ELSE h1)
mergeCalls(h) ==
  {x \in leavesToTrim(h) \X (0..(NumKeys - 1)) : x[2] < numStub(h[x[1]])}

\* C36: tryMerge on the page P does nothing when P is the root, when
\* emptySize < 3 * P.totalDataSize, when the entry of P is at slot 0 of its
\* parent, or when the data of the left sibling and of P together exceed
\* the capacity of a page; otherwise P receives the records of the left
\* sibling, the left sibling is freed, its children get P as parent, the
\* parent loses the entry of the left sibling and the entry of P takes its
\* key, the cursor of the caller designates the same record of P, and the
\* same is then done with the parent page.
C36_TryMerge ==
  \A x \in mergeCalls(heap) :
    With(beforeTryMerge(heap, x[1], x[2]), LAMBDA h1 :
    With(tryMerge(h1, x[1], x[2]), LAMBDA r :
      /\ mergeLevelsOK(h1, x[1])
      /\ r.h = mergedHeap(h1, x[1])
      /\ sameRecord(h1, r, x[1], x[2])
      /\ itEraseBeforeLift(heap, ItemIt(x[1], x[1], x[2])) =
           [h |-> r.h, it |-> ItemIt(x[1], x[1], r.idx)]))

\* an erase after which a leaf receives the records of its left sibling with
\* the cursor on a record, and the parent then receives the entries of its
\* own left sibling
C36_Witness ==
  \E x \in mergeCalls(heap) :
    With(beforeTryMerge(heap, x[1], x[2]), LAMBDA h1 :
      /\ mergeDepth(h1, x[1]) = 2
      /\ x[2] < numStub(h1[x[1]]))

\* merges of a leaf with the cursor at the end of the page
C36_WitnessEnd ==
  \E x \in mergeCalls(heap) :
    With(beforeTryMerge(heap, x[1], x[2]), LAMBDA h1 :
      mergeDepth(h1, x[1]) >= 1 /\ x[2] = numStub(h1[x[1]]))

\* tryMerge that stops because the two pages hold too much
C36_WitnessFull ==
  \E x \in mergeCalls(heap) :
    With(beforeTryMerge(heap, x[1], x[2]), LAMBDA h1 :
      /\ ~isRoot(h1[x[1]]) /\ capacity >= 3 * h1[x[1]].totalDataSize
      /\ entrySlot(h1, x[1]) # 0
      /\ capacity < h1[leftSibling(h1, x[1])].totalDataSize + h1[x[1]].totalDataSize)


\* the leaf for key0 has room for a record, as it is or after the gc() that
\* insert calls when shouldGc() holds
roomNow(h, key0) == canInsert(h[searchLeaf(h, key0)], KeySize + ValueSize)
roomAfterGc(h, key0) ==
  /\ ~roomNow(h, key0)
  /\ 2 * h[searchLeaf(h, key0)].totalDataSize < PAGE_SIZE - HeaderSize
  /\ canInsert(gc(h[searchLeaf(h, key0)]), KeySize + ValueSize)

\* C37: an insert whose leaf has room for the record, as it is or after a
\* gc that runs only when shouldGc holds (2 * totalDataSize < PAGE_SIZE -
\* header size), changes that leaf and nothing else: no page is allocated or
\* freed and no branch page changes; a leaf is split only when it has no
\* room after that gc.
C37_InsertFrame ==
  \A k \in ProbeKeys : \A v \in ValsOf(k) :
    With(searchLeaf(heap, k), LAMBDA pg :
    With(insert(heap, k, v), LAMBDA r :
      /\ roomNow(heap, k) =>
           /\ r.h = [heap EXCEPT ![pg] =
                       PageInsert(heap[pg], k, KeySize, v, ValueSize).page]
           /\ ~r.didGc /\ ~r.didSplit
      /\ roomAfterGc(heap, k) =>
           /\ r.h = [heap EXCEPT ![pg] =
                       PageInsert(gc(heap[pg]), k, KeySize, v, ValueSize).page]
           /\ r.didGc /\ ~r.didSplit
      /\ roomNow(heap, k) \/ roomAfterGc(heap, k) =>
           /\ isLeaf(heap[pg]) /\ isLeaf(r.h[pg])
           /\ livePages(r.h) = livePages(heap)
           /\ \A q \in PageIds \ {pg} : r.h[q] = heap[q]
           /\ r.h[pg].parent = heap[pg].parent
           /\ k \notin keysOf(heap) =>
                r.ret /\ recordSet(r.h[pg]) = recordSet(heap[pg])
                                    \cup {[key |-> k, keySize |-> KeySize,
                                          value |-> v, valueSize |-> ValueSize]}
           /\ k \in keysOf(heap) =>
                ~r.ret /\ recordsOf(r.h[pg]) = recordsOf(heap[pg])
      /\ r.didSplit <=> ~(roomNow(heap, k) \/ roomAfterGc(heap, k))
      /\ r.didSplit =>
           /\ livePages(r.h) # livePages(heap)
           /\ ~canInsert(heap[pg], KeySize + ValueSize)
           /\ r.didGc => ~canInsert(gc(heap[pg]), KeySize + ValueSize)
      /\ r.didGc => 2 * heap[pg].totalDataSize < PAGE_SIZE - HeaderSize))

\* an absent key whose leaf, below a branch page, has no room as it is and
\* has room after gc; and an absent key whose leaf has dead bytes and no
\* room, where shouldGc does not hold and the leaf is split
C37_Witness ==
  /\ \E k \in ProbeKeys \ keysOf(heap) :
       roomAfterGc(heap, k) /\ searchLeaf(heap, k) # root_
  /\ \E k \in ProbeKeys \ keysOf(heap) :
       /\ ~roomNow(heap, k) /\ ~roomAfterGc(heap, k)
       /\ freeSpace(gc(heap[searchLeaf(heap, k)])) > freeSpace(heap[searchLeaf(heap, k)])


\* the positions at which the loop `it = beginItem(); while (it !=
\* endItem()) ++it` stands, cut after MaxWalk steps
RECURSIVE visitedFrom(_, _, _)
visitedFrom(h, it, fuel) ==
  IF itEq(it, endItem) \/ fuel = 0 THEN <<>>
  ELSE <<it>> \o visitedFrom(h, itNext(h, it), fuel - 1)
visited(h) == visitedFrom(h, beginItem(h), MaxWalk)

\* the loop stands size() times, each time at a slot of a leaf
walkVisitsSize(h) ==
  /\ Len(visited(h)) = size(h)
  /\ \A i \in 1..Len(visited(h)) :
       /\ h[visited(h)[i].page].live /\ isLeaf(h[visited(h)[i].page])
       /\ visited(h)[i].idx < numStub(h[visited(h)[i].page])

\* On a map that holds a pair the loop visits size() items and stays inside
\* the pages; empty() is true exactly when size() is 0.
WalkWhenNonEmpty ==
  /\ ~empty(heap) => walkVisitsSize(heap)
  /\ empty(heap) <=> size(heap) = 0
  /\ size(heap) = refSize(ref)

\* C38: the loop `it = beginItem(); while (it != endItem()) ++it` visits
\* exactly size() items and reads no slot past the last slot of a page; on
\* an empty map beginItem() == endItem() and beginItem().isEnd() is true;
\* empty() is true exactly when size() is 0.
C38_Walk ==
  /\ walkVisitsSize(heap)
  /\ empty(heap) => itEq(beginItem(heap), endItem) /\ itIsEnd(beginItem(heap))
  /\ empty(heap) <=> size(heap) = 0


\* C39: erasing at a page cursor removes exactly the record of the slot of
\* the cursor and leaves the cursor at the record that followed it, or at
\* the end of the page; a loop that erases the records that match a
\* predicate and steps over the others visits each record of the page once
\* and leaves the records that do not match, in key order.
C39_CursorErase ==
  /\ \A i \in slotsOf(page) :
       With(pageItErase(page, i), LAMBDA r :
         /\ recordsOf(r.page) = seqWithout(recordsOf(page), i + 1)
         /\ r.page.totalDataSize = page.totalDataSize
              - (keySizeAt(page, i) + valueSizeAt(page, i) + StubSize)
         /\ IF i + 1 < numStub(page)
            THEN /\ r.idx < numStub(r.page)
                 /\ recordsOf(r.page)[r.idx + 1] = recordsOf(page)[i + 2]
            ELSE r.idx = numStub(r.page))
  /\ \A S \in SUBSET PageKeys :
       With(eraseIf(page, 0, S, <<>>), LAMBDA r :
         /\ r.seen = [i \in 1..numStub(page) |-> keyAt(page, i - 1)]
         /\ recordsOf(r.page) =
              SelectSeq(recordsOf(page), LAMBDA x : x.key \notin S)
         /\ sortedPage(r.page)
         /\ r.page.totalDataSize = calcTotalDataSize(r.page))

\* a page of three records, of which the loop erases the first and the last
C39_Witness ==
  /\ numStub(page) = 3
  /\ numStub(eraseIf(page, 0, {1, 5}, <<>>).page) = 1


\* the threads between the completed construction of a guard and the end
\* of its destruction
holders == {t \in Threads : pc[t] \in {"search", "insert", "count", "dtor"}}

\* the threads inside the constructor of a guard
waiting == {t \in Threads : pc[t] \in {"ctor", "exchange"}}

\* C40: with the lock byte 0 at the start, at most one thread is between
\* the construction and the destruction of a guard, so at most one thread
\* is inside the map operations of runCriticalSection and the map stays the
\* map of a sequential run; the byte is set exactly while a guard is held,
\* the destructor puts it back to 0, and then the exchange of a thread
\* that waits reads 0 and ends the wait.
C40_Spinlock ==
  /\ mutex \in {0, 1}
  /\ Cardinality(holders) <= 1
  /\ (mutex = 0) = (holders = {})
  /\ isValid(heap)
  /\ Contents(heap) = refSeq(ref)
  /\ \A t \in holders :
       With(atomicClear(mutex), LAMBDA l :
         /\ l = 0
         /\ exchange(l, 1).old = 0
         /\ exchange(l, 1).lock = 1)
  /\ \A t \in waiting :
       With(exchange(mutex, 1), LAMBDA r :
         /\ (r.old = 0) = (holders = {})
         /\ r.lock = 1)

\* a thread is about to leave its guard inside the map operations while the
\* two other threads wait in the constructor, one before the read of the
\* byte and one at its exchange
C40_Witness ==
  /\ \E t \in Threads : pc[t] = "insert"
  /\ \E t \in Threads : pc[t] = "ctor"
  /\ \E t \in Threads : pc[t] = "exchange"
  /\ mutex = 1

\* the byte is 0 again after a guarded section and a thread waits
C40_WitnessReleased ==
  /\ mutex = 0
  /\ \E t \in Threads : counter_[t] > 0
  /\ waiting # {}


====
